---- MODULE Spec2Model ----
(***************************************************************************)
(* Statement-to-ledger pipeline of mia_gc: the Capital One and Chase 7772  *)
(* card parsers, the four-column TCB parser (tcb_processor.py) and the     *)
(* three-column TCB draft (.ipynb_checkpoints/tcb_processor-checkpoint.py).*)
(* Text is modelled as TLA+ strings, amounts as integers in thousandths of *)
(* a currency unit, dates as integers yyyymmdd.                            *)
(***************************************************************************)
EXTENDS Integers, Sequences, FiniteSets, TLC

(***************************************************************************)
(* Text primitives (Python str / pandas .str methods)                      *)
(***************************************************************************)
\* str.upper() on one character: the lower-case letters and their capitals
ToUpper ==
    "a" :> "A" @@
    "b" :> "B" @@
    "c" :> "C" @@
    "d" :> "D" @@
    "e" :> "E" @@
    "f" :> "F" @@
    "g" :> "G" @@
    "h" :> "H" @@
    "i" :> "I" @@
    "j" :> "J" @@
    "k" :> "K" @@
    "l" :> "L" @@
    "m" :> "M" @@
    "n" :> "N" @@
    "o" :> "O" @@
    "p" :> "P" @@
    "q" :> "Q" @@
    "r" :> "R" @@
    "s" :> "S" @@
    "t" :> "T" @@
    "u" :> "U" @@
    "v" :> "V" @@
    "w" :> "W" @@
    "x" :> "X" @@
    "y" :> "Y" @@
    "z" :> "Z"

\* str.lower() on one character
ToLower ==
    "A" :> "a" @@
    "B" :> "b" @@
    "C" :> "c" @@
    "D" :> "d" @@
    "E" :> "e" @@
    "F" :> "f" @@
    "G" :> "g" @@
    "H" :> "h" @@
    "I" :> "i" @@
    "J" :> "j" @@
    "K" :> "k" @@
    "L" :> "l" @@
    "M" :> "m" @@
    "N" :> "n" @@
    "O" :> "o" @@
    "P" :> "p" @@
    "Q" :> "q" @@
    "R" :> "r" @@
    "S" :> "s" @@
    "T" :> "t" @@
    "U" :> "u" @@
    "V" :> "v" @@
    "W" :> "w" @@
    "X" :> "x" @@
    "Y" :> "y" @@
    "Z" :> "z"

\* the value of a decimal digit
DigitValue ==
    "0" :> 0 @@
    "1" :> 1 @@
    "2" :> 2 @@
    "3" :> 3 @@
    "4" :> 4 @@
    "5" :> 5 @@
    "6" :> 6 @@
    "7" :> 7 @@
    "8" :> 8 @@
    "9" :> 9

Char(s, i) == SubSeq(s, i, i)

Rest(s) == SubSeq(s, 2, Len(s))

\* position of the one-character string c in the text cls, 0 when absent
IndexIn(c, cls) ==
    IF \E i \in 1..Len(cls) : Char(cls, i) = c
    THEN CHOOSE i \in 1..Len(cls) : Char(cls, i) = c
    ELSE 0

IsDigit(c) == c \in DOMAIN DigitValue

IsLowerLetter(c) == c \in DOMAIN ToUpper

\* regex class \w : letters, digits, underscore
IsWordChar(c) ==
    c \in DOMAIN ToUpper \/ c \in DOMAIN ToLower \/ IsDigit(c) \/ c = "_"

\* regex class \s (only the blank occurs in the modelled texts)
IsSpace(c) == c = " "

UpperChar(c) == IF c \in DOMAIN ToUpper THEN ToUpper[c] ELSE c

LowerChar(c) == IF c \in DOMAIN ToLower THEN ToLower[c] ELSE c

RECURSIVE Upper(_)
\* str.upper()
Upper(s) == IF s = "" THEN "" ELSE UpperChar(Char(s, 1)) \o Upper(Rest(s))

RECURSIVE Lower(_)
\* str.lower()
Lower(s) == IF s = "" THEN "" ELSE LowerChar(Char(s, 1)) \o Lower(Rest(s))

\* Python's  k in s  on strings
Contains(k, s) ==
    \E i \in 1..(Len(s) - Len(k) + 1) : SubSeq(s, i, i + Len(k) - 1) = k

RECURSIVE LStrip(_)
LStrip(s) == IF s # "" /\ IsSpace(Char(s, 1)) THEN LStrip(Rest(s)) ELSE s

RECURSIVE RStrip(_)
RStrip(s) ==
    IF s # "" /\ IsSpace(Char(s, Len(s)))
    THEN RStrip(SubSeq(s, 1, Len(s) - 1))
    ELSE s

\* str.strip()
Strip(s) == RStrip(LStrip(s))

RECURSIVE RemoveChars(_, _)
\* re.sub of a one-character class by "" : drops every character found in cls
RemoveChars(s, cls) ==
    IF s = "" THEN ""
    ELSE (IF IndexIn(Char(s, 1), cls) > 0 THEN "" ELSE Char(s, 1))
         \o RemoveChars(Rest(s), cls)

RECURSIVE RemoveNonWordNonSpace(_)
\* str.replace(r'[^\w\s]', '', regex=True)
RemoveNonWordNonSpace(s) ==
    IF s = "" THEN ""
    ELSE (IF IsWordChar(Char(s, 1)) \/ IsSpace(Char(s, 1)) THEN Char(s, 1) ELSE "")
         \o RemoveNonWordNonSpace(Rest(s))

RECURSIVE SkipNonWord(_)
SkipNonWord(s) ==
    IF s # "" /\ ~IsWordChar(Char(s, 1)) THEN SkipNonWord(Rest(s)) ELSE s

RECURSIVE ReplaceNonWordRuns(_)
\* str.replace(r'\W+', ' ', regex=True) : every maximal run of non-word
\* characters (blanks included) becomes one blank
ReplaceNonWordRuns(s) ==
    IF s = "" THEN ""
    ELSE IF IsWordChar(Char(s, 1))
         THEN Char(s, 1) \o ReplaceNonWordRuns(Rest(s))
         ELSE " " \o ReplaceNonWordRuns(SkipNonWord(s))

RECURSIVE RemoveNonAlnumLower(_)
\* re.sub(r'[^a-z0-9]', '', ...)
RemoveNonAlnumLower(s) ==
    IF s = "" THEN ""
    ELSE (IF IsLowerLetter(Char(s, 1)) \/ IsDigit(Char(s, 1))
          THEN Char(s, 1) ELSE "")
         \o RemoveNonAlnumLower(Rest(s))

RECURSIVE AllDigits(_)
AllDigits(s) == s = "" \/ (IsDigit(Char(s, 1)) /\ AllDigits(Rest(s)))

RECURSIVE DigitsValue(_)
\* value of a string of decimal digits ("" is 0)
DigitsValue(s) ==
    IF s = "" THEN 0
    ELSE 10 * DigitsValue(SubSeq(s, 1, Len(s) - 1))
         + DigitValue[Char(s, Len(s))]

(***************************************************************************)
(* Numbers.  An amount is an integer number of thousandths.                *)
(***************************************************************************)
Abs(x) == IF x < 0 THEN -x ELSE x

\* fractional digits read as thousandths (digits past the third are not
\* representable and do not occur in the modelled cells)
FracMills(f) ==
    DigitsValue(SubSeq(f \o "000", 1, 3))

\* the unsigned decimal grammar  digits [ "." digits ]  |  "." digits
UnsignedOk(s) ==
    LET dot == IndexIn(".", s) IN
    IF dot = 0 THEN s # "" /\ AllDigits(s)
    ELSE /\ AllDigits(SubSeq(s, 1, dot - 1))
         /\ AllDigits(SubSeq(s, dot + 1, Len(s)))
         /\ Len(s) > 1
         /\ Len(s) - dot <= 3

UnsignedMills(s) ==
    LET dot == IndexIn(".", s) IN
    IF dot = 0 THEN 1000 * DigitsValue(s)
    ELSE 1000 * DigitsValue(SubSeq(s, 1, dot - 1))
         + FracMills(SubSeq(s, dot + 1, Len(s)))

HasSign(s) == s # "" /\ (Char(s, 1) = "-" \/ Char(s, 1) = "+")

\* does the text denote a decimal number (float(x) / pd.to_numeric accept it)
IsNumber(s) == UnsignedOk(IF HasSign(s) THEN Rest(s) ELSE s)

\* its value in thousandths
NumberValue(s) ==
    IF HasSign(s)
    THEN (IF Char(s, 1) = "-" THEN -1 ELSE 1) * UnsignedMills(Rest(s))
    ELSE UnsignedMills(s)

\* round(x, 2) on thousandths; a final digit 5 (a tie, decided by the binary
\* representation of the float) does not occur in the modelled cells and is
\* rounded to even here
Round2(x) ==
    LET a == Abs(x)
        q == a \div 10
        r == a % 10
        up == r > 5 \/ (r = 5 /\ q % 2 = 1)
        m == 10 * (IF up THEN q + 1 ELSE q)
    IN IF x < 0 THEN -m ELSE m

(***************************************************************************)
(* Dates.  A date is the integer yyyymmdd; NaT is the null date.           *)
(***************************************************************************)
NaT == 0

IsLeap(y) == (y % 4 = 0 /\ y % 100 # 0) \/ y % 400 = 0

DaysIn(m, y) ==
    IF m = 2 THEN (IF IsLeap(y) THEN 29 ELSE 28)
    ELSE IF m \in {4, 6, 9, 11} THEN 30 ELSE 31

\* pd.to_datetime(text, errors="coerce") on the month/day/year texts of the
\* statements: a well-formed MM/DD/YYYY text is a date, any other text NaT
to_datetime(s) ==
    IF /\ Len(s) = 10
       /\ Char(s, 3) = "/" /\ Char(s, 6) = "/"
       /\ AllDigits(SubSeq(s, 1, 2)) /\ AllDigits(SubSeq(s, 4, 5))
       /\ AllDigits(SubSeq(s, 7, 10))
    THEN LET m == DigitsValue(SubSeq(s, 1, 2))
             d == DigitsValue(SubSeq(s, 4, 5))
             y == DigitsValue(SubSeq(s, 7, 10))
         IN IF m \in 1..12 /\ d \in 1..DaysIn(m, y) /\ y >= 1
            THEN y * 10000 + m * 100 + d
            ELSE NaT
    ELSE NaT

Pad2(n) == IF n < 10 THEN "0" \o ToString(n) ELSE ToString(n)

\* strftime("%m/%d/%y")
strftime_mdy(d) ==
    Pad2((d \div 100) % 100) \o "/" \o Pad2(d % 100) \o "/" \o Pad2((d \div 10000) % 100)

\* strftime('%m/%d/%Y') (four-digit years)
strftime_mdY(d) ==
    Pad2((d \div 100) % 100) \o "/" \o Pad2(d % 100) \o "/" \o ToString(d \div 10000)

\* DataFrame.to_csv of a datetime column: ISO date, empty for NaT
csv_date(d) ==
    IF d = NaT THEN ""
    ELSE ToString(d \div 10000) \o "-" \o Pad2((d \div 100) % 100) \o "-" \o Pad2(d % 100)

(***************************************************************************)
(* Sequences                                                               *)

RECURSIVE MapSeq(_, _)
\* [Op(x) for x in s]
MapSeq(Op(_), s) ==
    IF s = <<>> THEN <<>> ELSE <<Op(Head(s))>> \o MapSeq(Op, Tail(s))

RECURSIVE MapFrom(_, _, _)
MapFrom(Op(_, _), s, i) ==
    IF s = <<>> THEN <<>> ELSE <<Op(i, Head(s))>> \o MapFrom(Op, Tail(s), i + 1)

\* [Op(i, x) for i, x in enumerate(s, 1)]
MapIdx(Op(_, _), s) == MapFrom(Op, s, 1)

RECURSIVE Filter(_, _)
\* df[mask] : the rows that satisfy keep, in frame order
Filter(keep(_), frame) ==
    IF frame = <<>> THEN <<>>
    ELSE (IF keep(Head(frame)) THEN <<Head(frame)>> ELSE <<>>)
         \o Filter(keep, Tail(frame))

\* the rows of frame at the positions listed in idxs, in that order
Take(frame, idxs) == MapSeq(LAMBDA i : frame[i], [k \in 1..Len(idxs) |-> idxs[k]])

\* the Date column of a frame
Dates(frame) == MapSeq(LAMBDA r : r.Date, frame)

RECURSIVE SelectIdx(_, _, _)
\* the indices i..n, in increasing order, with keep[i]
SelectIdx(n, keep, i) ==
    IF i > n THEN <<>>
    ELSE (IF keep[i] THEN <<i>> ELSE <<>>) \o SelectIdx(n, keep, i + 1)

\* all orders of the index set 1..n
Perms(n) == {p \in [1..n -> 1..n] : \A i, j \in 1..n : i # j => p[i] # p[j]}

\* DataFrame.sort_values(col) (default kind "quicksort", na_position "last"):
\* any order of the rows in which keys ascend and null keys come last; the
\* relative order of equal keys is left to the sorting routine
SortedOrders(keys) ==
    LET n == Len(keys)
        Before(a, b) == b = NaT \/ (a # NaT /\ a <= b)
    IN {p \in Perms(n) : \A i \in 1..(n - 1) : Before(keys[p[i]], keys[p[i + 1]])}

RECURSIVE ByLengthDesc(_, _)
ByLengthDesc(map, len) ==
    IF len < 1 THEN <<>>
    ELSE SelectIdx(Len(map), [i \in 1..Len(map) |-> Len(map[i][1]) = len], 1)
         \o ByLengthDesc(map, len - 1)

MaxKeyLen(map) ==
    IF map = <<>> THEN 0
    ELSE CHOOSE n \in {Len(map[i][1]) : i \in 1..Len(map)} :
             \A i \in 1..Len(map) : Len(map[i][1]) <= n

\* a sort by descending key length that puts, among keys of equal length,
\* the one declared last first
sorted_by_len_last_declared_first(map) ==
    LET n == Len(map)
        rev == [i \in 1..n |-> map[n + 1 - i]]
        s == ByLengthDesc(rev, MaxKeyLen(map))
    IN [k \in 1..Len(s) |-> n + 1 - s[k]]

\* sorted(map.keys(), key=len, reverse=True): the indices of the map's
\* entries by descending key length, equal lengths in declaration order
sorted_by_len(map) == ByLengthDesc(map, MaxKeyLen(map))

\* map.items() / map.keys(): the entries in declaration order
DeclOrder(map) == [i \in 1..Len(map) |-> i]

RECURSIVE FirstMatch(_, _, _)
\* the first entry, in the given order of indices, whose key occurs in text;
\* 0 if there is none
FirstMatch(map, order, text) ==
    IF order = <<>> THEN 0
    ELSE IF Contains(map[Head(order)][1], text) THEN Head(order)
    ELSE FirstMatch(map, Tail(order), text)

(***************************************************************************)
(* Capital One (capone_processor.py)                                       *)
(***************************************************************************)
capone_account_map ==
    <<
       <<"NEW YORK EYE", 5000>>,
       <<"VISION-EASE LENS", 5000>>,
       <<"SEIKO OPTICAL PRODUCTS", 5000>>,
       <<"HEB", 7200>>,
       <<"H-E-B", 7200>>,
       <<"WALMART", 7200>>,
       <<"HOME DEPOT", 7300>>,
       <<"THE HOME DEPOT", 7300>>,
       <<"LOWES", 7300>>,
       <<"OPTICAL WORKS CORP", 7300>>,
       <<"PRISM TOOL COMPANY LLC", 7300>>,
       <<"POSTAL CENTER PLUS", 7210>>,
       <<"AMAZON", 7200>>,
       <<"AMAZON MARK", 7200>>,
       <<"INSURANCE", 6850>>,
       <<"TEMU.COM", 6050>>,
       <<"MY VISION EXPRESS", 7300>>,
       <<"ATT", 7600>>,
       <<"ATT BILL PAYMENT", 7600>>,
       <<"REMOTEPc", 7210>>
    >>

capone_sorted == sorted_by_len(capone_account_map)

UNCATEGORIZED_ACCOUNT == 7800

\* a CSV cell read by pd.read_csv: the empty cell is NaN
isnull(cell) == cell = ""

\* Series.astype(str) of a text column: NaN becomes "nan"
astype_str(cell) == IF isnull(cell) THEN "nan" ELSE cell

\* map_account of capone_processor.py
capone_map_account(desc) ==
    LET m == FirstMatch(capone_account_map, capone_sorted, Upper(desc))
    IN IF m = 0 THEN UNCATEGORIZED_ACCOUNT ELSE capone_account_map[m][2]

\* map_short_desc of capone_processor.py
capone_map_short_desc(desc) ==
    LET m == FirstMatch(capone_account_map, capone_sorted, Upper(desc))
    IN IF m = 0 THEN desc ELSE capone_account_map[m][1]

\* pd.to_numeric(col, errors='coerce').fillna(0)
to_numeric_fill0(cell) == IF IsNumber(cell) THEN NumberValue(cell) ELSE 0

(***************************************************************************)
(* Chase 7772 (chase7772_processor.py)                                     *)
(***************************************************************************)
chase_account_map ==
    <<
       <<"MARCOLIN USA", 5000>>,
       <<"TIKTOK SHOP", 7200>>,
       <<"DILLEY TRUCK STOP", 6800>>,
       <<"HILCOVISION.COM", 7200>>,
       <<"DAC VISION", 7200>>,
       <<"TIKTOK ADS", 6050>>,
       <<"TIKTOK PROMOTE", 6050>>,
       <<"H-E-B GAS", 6800>>,
       <<"H-E-B GASCARWASH", 6800>>,
       <<"MY VISION EXPRESS", 6650>>,
       <<"MY VISION EXPRESS LLC", 6650>>,
       <<"IN EYETOPIA OPTICS LLC", 5000>>,
       <<"IN EYETOPIA OPTICS", 5000>>,
       <<"ELEVENLABS", 6650>>,
       <<"DNHGODADDY.COM", 6050>>,
       <<"OPTISOURCE", 7200>>,
       <<"YOUNGER OPTICS", 5000>>,
       <<"7-ELEVEN", 6800>>,
       <<"KERING EYEWEAR", 5000>>,
       <<"RMA TOLL", 6250>>,
       <<"DEL NORTE OPTICAL", 5000>>,
       <<"CLARITI EYEWEAR INC", 5000>>,
       <<"CLARITI EYEWEAR", 5000>>,
       <<"AMAZON MKTPL", 7200>>,
       <<"AMAZON", 7200>>,
       <<"GOOGLE YOUTUBE", 6650>>,
       <<"GOOGLE PLAY YOUTUBE", 6650>>,
       <<"GOOGLE CANVA", 6650>>,
       <<"FACEBK", 6050>>,
       <<"FACEBOOK", 6050>>,
       <<"FACEBOOK ADVERTISING", 6050>>,
       <<"OPENAI", 6650>>,
       <<"DOMINOS", 6700>>,
       <<"MICROSOFT", 6650>>,
       <<"WORDPRESS", 6050>>,
       <<"SPECTRUM MOBILE", 7600>>,
       <<"SPECTRUM", 7700>>,
       <<"VALET TIPS", 6250>>,
       <<"8TO80 EYEWEAR", 5000>>,
       <<"EIGHT TO EIGHTY EYEWEAR", 5000>>,
       <<"KENMARK OPTICAL", 5000>>,
       <<"LUXOTTICA", 5000>>,
       <<"DEL MAR MINI STORAGE", 7250>>,
       <<"VALLEY SHREDDING", 6650>>,
       <<"CHICK-FIL-A", 6700>>,
       <<"EXXON", 6800>>,
       <<"SE GAS", 6800>>,
       <<"FUEL AMERICA", 6800>>,
       <<"CUSTOM BRAND", 5000>>,
       <<"HOKKAIDO", 6700>>,
       <<"YUMM", 6800>>,
       <<"SHELL OIL", 6800>>
    >>

chase_sorted == sorted_by_len(chase_account_map)

CHASE_VISA_ACCOUNT == 2135

BANK_ACCOUNT == 1100

\* map_account of chase7772_processor.py (desc "" is the null description)
chase_map_account(desc) ==
    IF isnull(desc) THEN UNCATEGORIZED_ACCOUNT
    ELSE LET m == FirstMatch(chase_account_map, chase_sorted, Upper(desc))
         IN IF m # 0 THEN chase_account_map[m][2]
            ELSE IF Contains("AUTOMATIC PAYMENT", Upper(desc)) THEN CHASE_VISA_ACCOUNT
            ELSE UNCATEGORIZED_ACCOUNT

\* map_short_desc of chase7772_processor.py
chase_map_short_desc(desc) ==
    IF isnull(desc) THEN ""
    ELSE LET m == FirstMatch(chase_account_map, chase_sorted, Upper(desc))
         IN IF m # 0 THEN chase_account_map[m][1]
            ELSE IF Contains("AUTOMATIC PAYMENT", Upper(desc)) THEN "AUTOMATIC PAYMENT"
            ELSE desc

(***************************************************************************)
(* TCB vendor tables as declared in the three-column draft                 *)
(***************************************************************************)
tcb3_debit_account_map ==
    <<
       <<"USATAXPYMT IRS CCD", "2060">>,
       <<"USA TAX PYMT IRS CCD", "2060">>,
       <<"USA TAX PYMT IRS", "2060">>,
       <<"AUTOPAYBUS CHASE CREDIT CRD PPD", "2130">>,
       <<"CRCARDPMT CAPITAL ONE CCD", "2130">>,
       <<"CAPITAL ONE VISA PMT", "2130">>,
       <<"CHASE VISA PMT 7772", "2135">>,
       <<"CHASE VISA PMT 3506", "2136">>,
       <<"DISCOUNT MERCHANT BANKCD CCD", "6460">>,
       <<"DISCT MERCH BANK CCD", "6460">>,
       <<"MERCH BANK DISCT ACH", "6460">>,
       <<"FEE MERCHANT BANKCD CCD", "6460">>,
       <<"FEE MERCH BANK CCD", "6460">>,
       <<"MERCH BANK FEE ACH", "6460">>,
       <<"INTERCHNG MERCHANT BANKCD CCD", "6460">>,
       <<"INTERCHNG MERCH BANK CCD", "6460">>,
       <<"INTERCHNG MERCH BANK", "6460">>,
       <<"MERCH BANK INTERCHNG ACH", "6460">>,
       <<"WEB PAY PECAA BUYING GRP", "5000">>,
       <<"PECAA BUYING GRP", "5000">>,
       <<"ADT ALARM", "7475">>,
       <<"EVERON ALARM", "7475">>,
       <<"IPAY BILL PAY", "6200">>,
       <<"MBFS.COM MERCEDES LEASE", "7260">>,
       <<"TX WORKFORCE COMM", "2070">>
    >>

tcb3_credit_account_map ==
    <<
       <<"MERCHANT BANKCD DEPOSIT ACH ENTRY MEMO POSTED TODAY", "DEP MERCH BANK CCD MAIN">>,
       <<"SYNCHRONY BANK MTOT DEP ACH ENTRY MEMO POSTED TODAY", "SYNCHRONY BANK CCD">>,
       <<"DEPOSIT MERCHANT BANKCD CCD", "DEP MERCH BANK CCD MAIN">>,
       <<"REGULAR DEPOSIT", "REGULAR DEPOSIT">>,
       <<"CIGNA", "FAA - CIGNA CCD">>,
       <<"EYEMED VISION CCD", "EYEMED VISION CCD">>,
       <<"ESSILOR", "ESSILOR SAFETY CCD">>,
       <<"EYETOPIA", "REIMB EYETOPIA CCD">>,
       <<"FAA ADMIN CCD", "FAA ADMIN CCD">>,
       <<"MTOT DEP SYNCHRONY BANK CCD", "SYNCHRONY BANK CCD">>,
       <<"HCCLAIMPMT SUPERIOR VISION CCD", "SUPERIOR VISION CCD">>,
       <<"HCCLAIMPMT UHC SPECTERA VSN CCD", "UHC SPECTERA VISION">>,
       <<"DAVIS VISION CCD", "DAVIS VISION CCD">>,
       <<"1010877933 FAA - AETNA CCD", "FAA - AETNA CCD">>,
       <<"FSL ADMIN FAA CCD", "FSL ADMIN FAA CCD">>
    >>

(***************************************************************************)
(* Files and returned paths                                                *)
(***************************************************************************)
\* Python's None as a returned path
None == "None"

\* a file of the output folder: not written by this run, or its rows
NoFile == [written |-> FALSE, rows |-> <<>>]

File(rows) == [written |-> TRUE, rows |-> rows]

\* a numbering that would begin one past the counter entered in the form
DocumentIdPastStart(prefix, start, k) == prefix \o ToString(start + k + 1)

\* 'GJ#' + str(start + k) : the document id of the k-th row (k from 0)
DocumentId(prefix, start, k) == prefix \o ToString(start + k)

(***************************************************************************)
(* process_capone_csv                                                      *)
(***************************************************************************)
\* steps 1-2 and the date conversion of step 3 on one row; i is the row's
\* index label in the DataFrame read from the file
capone_typed_row(i, r) ==
    LET clean == Strip(RemoveNonWordNonSpace(astype_str(r.Description)))
        debit == to_numeric_fill0(r.Debit)
        credit == to_numeric_fill0(r.Credit)
    IN [idx |-> i,
        Description |-> r.Description,
        Description_Clean |-> clean,
        Account |-> capone_map_account(clean),
        ShortDescription |-> capone_map_short_desc(clean),
        Debit |-> debit,
        Credit |-> credit,
        Amount |-> Abs(debit - credit),
        Date |-> to_datetime(r.Date)]

capone_typed(rows) == MapIdx(capone_typed_row, rows)

\* df = df[df['Amount'] > 0]
capone_keep(r) == r.Amount > 0

capone_filtered(rows) == Filter(capone_keep, capone_typed(rows))

\* the columns Document, CounterAccount and ShortDescForExport of the k-th
\* row of the sorted frame
capone_numbered_row(gj, k, r) ==
    [idx |-> r.idx,
     Description |-> r.Description,
     Description_Clean |-> r.Description_Clean,
     Account |-> r.Account,
     ShortDescription |-> r.ShortDescription,
     Debit |-> r.Debit,
     Credit |-> r.Credit,
     Amount |-> r.Amount,
     Date |-> r.Date,
     Document |-> DocumentId("GJ#", gj, k - 1),
     CounterAccount |-> 2130,
     ShortDescForExport |->
         IF r.Account # UNCATEGORIZED_ACCOUNT THEN r.ShortDescription ELSE r.Description]

\* the numbered frame; sorted is the frame after sort_values and reset_index
capone_numbered(sorted, gj) ==
    MapIdx(LAMBDA k, r : capone_numbered_row(gj, k, r), sorted)

\* one line of the import file
capone_export_row(r) ==
    <<csv_date(r.Date), r.Document, r.Account, r.ShortDescForExport, r.Amount,
      r.CounterAccount, r.ShortDescForExport, -r.Amount>>

capone_export(frame) == MapSeq(capone_export_row, frame)

capone_is_unmapped(r) == r.Account = UNCATEGORIZED_ACCOUNT

capone_unmapped_row(r) == <<csv_date(r.Date), r.Description, r.Debit, r.Credit, r.Amount>>

\* the unknown-vendor report
capone_unmapped(frame) == MapSeq(capone_unmapped_row, Filter(capone_is_unmapped, frame))

\* steps 3 (numbering) to 6 on the sorted frame
capone_finish(sorted, gj) ==
    LET frame == capone_numbered(sorted, gj)
        unmapped == capone_unmapped(frame)
    IN IF Len(sorted) = 0
       THEN [outcome |-> "returned",
             error |-> "",
             df |-> <<>>,
             export_csv |-> NoFile,
             unmapped_csv |-> NoFile,
             ret |-> <<"CapOne_import_EMPTY.csv", None>>]
       ELSE [outcome |-> "returned",
             error |-> "",
             df |-> frame,
             export_csv |-> File(capone_export(frame)),
             unmapped_csv |-> IF unmapped = <<>> THEN NoFile ELSE File(unmapped),
             ret |-> <<"CapOne_import.csv",
                       IF unmapped = <<>> THEN None ELSE "CapOne_unmapped.csv">>]

(***************************************************************************)
(* process_chase7772_csv                                                   *)
(***************************************************************************)
\* CleanDescription: a null description stays null
chase_clean(desc) ==
    IF isnull(desc) THEN desc ELSE Strip(ReplaceNonWordRuns(desc))

chase_typed_row(i, r) ==
    LET clean == chase_clean(r.Description)
    IN [idx |-> i,
        Description |-> r.Description,
        CleanDescription |-> clean,
        Account |-> chase_map_account(clean),
        ShortDescription |-> chase_map_short_desc(clean),
        Amount |-> to_numeric_fill0(r.Amount),
        Date |-> to_datetime(r.Date)]

chase_typed(rows) == MapIdx(chase_typed_row, rows)

chase_numbered_row(gj, k, r) ==
    [idx |-> r.idx,
     Description |-> r.Description,
     CleanDescription |-> r.CleanDescription,
     Account |-> r.Account,
     ShortDescription |-> r.ShortDescription,
     Amount |-> r.Amount,
     Date |-> r.Date,
     Document |-> DocumentId("GJ#", gj, k - 1),
     CounterAccount |-> IF r.Amount < 0 THEN BANK_ACCOUNT ELSE CHASE_VISA_ACCOUNT,
     AmountNeg |-> -Abs(r.Amount)]

\* the numbered frame; sorted is the frame after sort_values and reset_index
chase_numbered(sorted, gj) ==
    MapIdx(LAMBDA k, r : chase_numbered_row(gj, k, r), sorted)

chase_export_row(r) ==
    <<csv_date(r.Date), r.Document, r.Account, r.ShortDescription, r.Amount,
      r.CounterAccount, r.ShortDescription, r.AmountNeg>>

chase_export(frame) == MapSeq(chase_export_row, frame)

chase_is_unmapped(r) == r.Account = UNCATEGORIZED_ACCOUNT

chase_unmapped_row(r) == <<csv_date(r.Date), r.Description, r.Amount>>

chase_unmapped(frame) == MapSeq(chase_unmapped_row, Filter(chase_is_unmapped, frame))

\* numbering and the two exports on the sorted frame
chase_finish(sorted, gj) ==
    LET frame == chase_numbered(sorted, gj)
        unmapped == chase_unmapped(frame)
    IN [outcome |-> "returned",
        error |-> "",
        df |-> frame,
        export_csv |-> File(chase_export(frame)),
        unmapped_csv |-> IF unmapped = <<>> THEN NoFile ELSE File(unmapped),
        ret |-> <<"Chase7772_import.csv",
                  IF unmapped = <<>> THEN None ELSE "Chase7772_unmapped.csv">>]

\* the exceptions process_chase7772_csv can end with on a file ("" for
\* none).  A Description column without a single text is read as a float
\* column, on which the .str accessor raises.  On a file without rows
\* df.apply(..., axis=1) answers an empty DataFrame, and whether assigning it
\* to the column CounterAccount raises depends on the pandas installed.
chase_errors(rows) ==
    IF rows = <<>> THEN {"", "ValueError"}
    ELSE IF \A i \in 1..Len(rows) : isnull(rows[i].Description) THEN {"AttributeError"}
    ELSE {""}

\* process_chase7772_csv: an exception leaves it before the first to_csv
chase_run(error, sorted, gj) ==
    IF error # ""
    THEN [outcome |-> "raised", error |-> error, df |-> <<>>, export_csv |-> NoFile,
          unmapped_csv |-> NoFile, ret |-> <<>>]
    ELSE chase_finish(sorted, gj)

(***************************************************************************)
(* Four-column TCB statement (tcb_processor.py)                            *)
(***************************************************************************)
\* row[:4] + [""] * max(0, 4 - len(row))
Slice4(row) == [i \in 1..4 |-> IF i <= Len(row) THEN row[i] ELSE ""]

\* str(cell).strip().upper().replace(" ", "")
HeaderNorm(cell) == RemoveChars(Upper(Strip(cell)), " ")

HeaderTargets == <<"DATE", "BUSINESS WEBSITE OR DESCRIPTION", "DEBITS", "CREDITS">>

\* [t.replace(" ", "") for t in targets]
targets_norm == MapSeq(LAMBDA t : RemoveChars(t, " "), HeaderTargets)

\* fuzzy_header_match: norm == targets_norm, cell by cell
fuzzy_header_match(row) ==
    \A i \in 1..4 : HeaderNorm(Slice4(row)[i]) = targets_norm[i]

\* fuzzy_header_match of every row of the grid
header_flags(all_rows) ==
    MapSeq(fuzzy_header_match, [i \in 1..Len(all_rows) |-> all_rows[i]])

\* position of the first TRUE in flags, 0 when there is none
FirstTrue(flags) ==
    IF \E i \in 1..Len(flags) : flags[i]
    THEN CHOOSE i \in 1..Len(flags) : flags[i] /\ \A j \in 1..(i - 1) : ~flags[j]
    ELSE 0

\* header_idx: the first row that matches the header predicate, 0 for None
header_idx(all_rows) == FirstTrue(header_flags(all_rows))

\* row + [""] * (len(header_row) - len(row)) when the row is shorter
PadTo(row, n) ==
    IF Len(row) < n THEN [i \in 1..n |-> IF i <= Len(row) THEN row[i] ELSE ""]
    ELSE row

\* a summary filter that skips blank rows only
tcb4_blank_only(row) == Strip(row[1]) = ""

\* the summary/blank-row test of the loop on the first cell
tcb4_blank_or_total(row) ==
    \/ Upper(Strip(row[1])) = ""
    \/ Contains("TOTAL", Upper(Strip(row[1])))

\* indices (in all_rows) of the rows appended to table_data; flags are the
\* rows' header matches and h the header index
table_data_idx(all_rows, flags, h) ==
    SelectIdx(Len(all_rows),
              [i \in 1..Len(all_rows) |->
                  /\ i > h
                  /\ ~flags[i]
                  /\ ~tcb4_blank_or_total(PadTo(all_rows[i], Len(all_rows[h])))], 1)

\* the name given to the DataFrame column under a header cell
tcb4_column(cell) ==
    LET c == Upper(Strip(cell))
    IN IF c = "DATE" THEN "DATE"
       ELSE IF c = "BUSINESS WEBSITE OR DESCRIPTION" THEN "DESCRIPTION"
       ELSE c

\* columns
tcb4_columns(header_row) == MapSeq(tcb4_column, [i \in 1..Len(header_row) |-> header_row[i]])

\* position of the column called name, 0 when the frame has none (KeyError)
ColumnOf(columns, name) ==
    IF \E i \in 1..Len(columns) : columns[i] = name
    THEN CHOOSE i \in 1..Len(columns) : columns[i] = name
    ELSE 0

\* .str.replace(r'[$,() ]', '').str.replace(r'^-', '')
tcb4_amount_text(cell) ==
    LET c == RemoveChars(cell, "$,() ")
    IN IF c # "" /\ Char(c, 1) = "-" THEN Rest(c) ELSE c

\* float(x) raises ValueError on a text that is no number
tcb4_amount_raises(cell) ==
    tcb4_amount_text(cell) # "" /\ ~IsNumber(tcb4_amount_text(cell))

\* float(x) if x else 0.0
tcb4_amount(cell) ==
    IF tcb4_amount_text(cell) = "" THEN 0 ELSE NumberValue(tcb4_amount_text(cell))

\* one row of the typed frame; i is the row's position in all_rows and
\* at the positions of the DATE, DESCRIPTION, DEBITS and CREDITS columns
tcb4_typed_row(all_rows, n, at, i) ==
    LET row == PadTo(all_rows[i], n)
    IN [idx |-> i,
        Date |-> to_datetime(row[at[1]]),
        DESCRIPTION |-> row[at[2]],
        DEBITS |-> tcb4_amount(row[at[3]]),
        CREDITS |-> tcb4_amount(row[at[4]])]

\* a parse that would answer an empty frame where the code raises
tcb4_parse_never_raising(all_rows) == [error |-> "", df |-> <<>>]

\* the parse up to "Data cleaning & conversion": the exception it raises
\* ("" for none) and the typed frame df
tcb4_parse(all_rows) ==
    LET flags == header_flags(all_rows)
        h == FirstTrue(flags)
    IN IF h = 0 THEN [error |-> "Can't locate table header", df |-> <<>>]
       ELSE LET cols == tcb4_columns(all_rows[h])
                at == <<ColumnOf(cols, "DATE"), ColumnOf(cols, "DESCRIPTION"),
                        ColumnOf(cols, "DEBITS"), ColumnOf(cols, "CREDITS")>>
                data == table_data_idx(all_rows, flags, h)
            IN IF \E c \in 1..4 : at[c] = 0
               THEN [error |-> "KeyError", df |-> <<>>]
               ELSE IF \E k \in 1..Len(data), c \in 3..4 :
                          tcb4_amount_raises(PadTo(all_rows[data[k]], Len(cols))[at[c]])
               THEN [error |-> "could not convert string to float", df |-> <<>>]
               ELSE [error |-> "",
                     df |-> MapSeq(LAMBDA i : tcb4_typed_row(all_rows, Len(cols), at, i),
                                   data)]

\* str.contains("DDA REGULAR CHECK", case=False, na=False)
is_check(desc) == Contains("DDA REGULAR CHECK", Upper(desc))

\* a debit filter that would keep the paper checks
tcb4_is_debit_keeping_checks(r) == r.DEBITS > 0

\* df["DEBITS"] > 0 and not a paper check
tcb4_is_debit(r) == r.DEBITS > 0 /\ ~is_check(r.DESCRIPTION)

\* df_debits before sorting
tcb4_debits(typed) == Filter(tcb4_is_debit, typed)

tcb4_is_credit(r) == r.CREDITS > 0

\* df_credits before sorting
tcb4_credits(typed) == Filter(tcb4_is_credit, typed)

\* next((v for k, v in debit_account_map.items() if k in str(desc)), "7800")
tcb4_debit_account(dmap, desc_upper) ==
    LET m == FirstMatch(dmap, DeclOrder(dmap), desc_upper)
    IN IF m = 0 THEN "7800" ELSE dmap[m][2]

\* next((k for k in debit_account_map.keys() if k in str(desc)), desc)
tcb4_debit_short(dmap, desc_upper) ==
    LET m == FirstMatch(dmap, DeclOrder(dmap), desc_upper)
    IN IF m = 0 THEN desc_upper ELSE dmap[m][1]

\* next((v for k, v in credit_account_map.items() if k in str(desc)), desc)
tcb4_credit_short(cmap, desc_upper) ==
    LET m == FirstMatch(cmap, DeclOrder(cmap), desc_upper)
    IN IF m = 0 THEN desc_upper ELSE cmap[m][2]

tcb4_debit_row(dmap, gj, k, r) ==
    [idx |-> r.idx,
     Date |-> r.Date,
     DESCRIPTION |-> r.DESCRIPTION,
     DEBITS |-> r.DEBITS,
     CREDITS |-> r.CREDITS,
     Account |-> tcb4_debit_account(dmap, Upper(r.DESCRIPTION)),
     ShortDescription |-> tcb4_debit_short(dmap, Upper(r.DESCRIPTION)),
     CounterAccount |-> "1100",
     Document |-> DocumentId("GJ#", gj, k - 1)]

\* df_debits with the mapping and numbering columns; sorted is df_debits
\* after sort_values
tcb4_debits_numbered(sorted, dmap, gj) ==
    MapIdx(LAMBDA k, r : tcb4_debit_row(dmap, gj, k, r), sorted)

tcb4_credit_row(cmap, dp, k, r) ==
    [idx |-> r.idx,
     Date |-> r.Date,
     DESCRIPTION |-> r.DESCRIPTION,
     DEBITS |-> r.DEBITS,
     CREDITS |-> r.CREDITS,
     Account |-> "4000",
     ShortDescription |-> tcb4_credit_short(cmap, Upper(r.DESCRIPTION)),
     CounterAccount |-> "1100",
     Document |-> DocumentId("DP#", dp, k - 1)]

\* df_credits with the mapping and numbering columns; sorted is df_credits
\* after sort_values
tcb4_credits_numbered(sorted, cmap, dp) ==
    MapIdx(LAMBDA k, r : tcb4_credit_row(cmap, dp, k, r), sorted)

\* row["DATE"].strftime("%m/%d/%y") if pd.notnull(row["DATE"]) else ""
tcb4_date_str(d) == IF d = NaT THEN "" ELSE strftime_mdy(d)

tcb4_debit_export_row(r) ==
    <<tcb4_date_str(r.Date), r.Document, r.Account, r.ShortDescription,
      Round2(r.DEBITS), r.CounterAccount, r.ShortDescription, -Round2(r.DEBITS)>>

tcb4_credit_export_row(r) ==
    <<tcb4_date_str(r.Date), r.Document, r.CounterAccount, r.ShortDescription,
      Round2(r.CREDITS), r.Account, r.ShortDescription, -Round2(r.CREDITS)>>

tcb4_debit_export(frame) == MapSeq(tcb4_debit_export_row, frame)

tcb4_credit_export(frame) == MapSeq(tcb4_credit_export_row, frame)

tcb4_is_unmapped(r) == r.Account = "7800"

tcb4_unmapped_row(r) == <<tcb4_date_str(r.Date), r.DESCRIPTION, r.DEBITS, "7800">>

tcb4_unmapped(frame) == MapSeq(tcb4_unmapped_row, Filter(tcb4_is_unmapped, frame))

\* the rest of the parse on the two sorted batches: mapping, numbering and
\* the three exports
tcb4_finish(sorted_debits, sorted_credits, dmap, cmap, gj, dp) ==
    LET debits == tcb4_debits_numbered(sorted_debits, dmap, gj)
        credits == tcb4_credits_numbered(sorted_credits, cmap, dp)
        unmapped == tcb4_unmapped(debits)
    IN [outcome |-> "returned",
        error |-> "",
        df_debits |-> debits,
        df_credits |-> credits,
        debit_csv |-> File(tcb4_debit_export(debits)),
        credit_csv |-> File(tcb4_credit_export(credits)),
        unmapped_csv |-> IF unmapped = <<>> THEN NoFile ELSE File(unmapped),
        ret |-> <<"TCB_credits.csv", "TCB_debits.csv",
                  IF unmapped = <<>> THEN None ELSE "TCB_unmapped.csv">>]

\* a parser that would export before it validates
tcb4_run_exporting_first(error, sorted_debits, sorted_credits, dmap, cmap, gj, dp) ==
    [tcb4_finish(sorted_debits, sorted_credits, dmap, cmap, gj, dp)
        EXCEPT !.outcome = IF error # "" THEN "raised" ELSE "returned",
               !.error = error,
               !.ret = IF error # "" THEN <<>> ELSE @]

\* process_tcb_statement from the typed frame on: the exceptions (header
\* not found, a cell float() rejects) leave it before the first export
tcb4_run(error, sorted_debits, sorted_credits, dmap, cmap, gj, dp) ==
    IF error # ""
    THEN [outcome |-> "raised", error |-> error, df_debits |-> <<>>, df_credits |-> <<>>,
          debit_csv |-> NoFile, credit_csv |-> NoFile, unmapped_csv |-> NoFile,
          ret |-> <<>>]
    ELSE tcb4_finish(sorted_debits, sorted_credits, dmap, cmap, gj, dp)

\* the summary row: the last row of the grid whose first cell, upper-cased,
\* contains "TOTAL" (reversed(all_rows), first hit); 0 when there is none
RECURSIVE summary_row_idx(_, _)
summary_row_idx(all_rows, i) ==
    IF i = 0 THEN 0
    ELSE IF Contains("TOTAL", Upper(all_rows[i][1])) THEN i
    ELSE summary_row_idx(all_rows, i - 1)

\* str(val).replace("$", "").replace(",", "").strip()
val_clean(val) == Strip(RemoveChars(val, "$,"))

\* re.match(r"^\d+(\.\d+)?$", val_clean)
summary_is_number(s) ==
    LET dot == IndexIn(".", s) IN
    IF dot = 0 THEN s # "" /\ AllDigits(s)
    ELSE /\ dot > 1
         /\ dot < Len(s)
         /\ AllDigits(SubSeq(s, 1, dot - 1))
         /\ AllDigits(SubSeq(s, dot + 1, Len(s)))

\* the values the loop over the summary row reads, in thousandths
RECURSIVE summary_values(_, _)
summary_values(row, i) ==
    IF i > Len(row) THEN {}
    ELSE (IF summary_is_number(val_clean(row[i]))
          THEN {UnsignedMills(val_clean(row[i]))} ELSE {})
         \cup summary_values(row, i + 1)

\* s_debit: the smallest value of the summary row
SmallestOf(vals) == CHOOSE v \in vals : \A w \in vals : v <= w

\* s_credit: the largest value of the summary row
LargestOf(vals) == CHOOSE v \in vals : \A w \in vals : v >= w

\* df_debits["DEBITS"].sum()
RECURSIVE total_debits(_)
total_debits(frame) ==
    IF frame = <<>> THEN 0 ELSE Head(frame).DEBITS + total_debits(Tail(frame))

\* df_credits["CREDITS"].sum()
RECURSIVE total_credits(_)
total_credits(frame) ==
    IF frame = <<>> THEN 0 ELSE Head(frame).CREDITS + total_credits(Tail(frame))

\* is_debit_match and is_credit_match: a value was read and it is within one
\* currency unit of the batch total
summary_matches(vals, debits, credits) ==
    /\ vals # {}
    /\ Abs(SmallestOf(vals) - total_debits(debits)) < 1000
    /\ Abs(LargestOf(vals) - total_credits(credits)) < 1000

\* the line the summary validation prints
summary_line(all_rows, debits, credits) ==
    LET i == summary_row_idx(all_rows, Len(all_rows)) IN
    IF i = 0 THEN "NOTICE"
    ELSE IF summary_matches(summary_values(all_rows[i], 1), debits, credits)
         THEN "OK"
         ELSE "WARNING"

\* a validation that would abort the run on a mismatch
tcb4_validated_or_aborted(all_rows, r) ==
    IF r.outcome = "raised"
    THEN [outcome |-> r.outcome, error |-> r.error, summary |-> "",
          df_debits |-> r.df_debits, df_credits |-> r.df_credits,
          debit_csv |-> r.debit_csv, credit_csv |-> r.credit_csv,
          unmapped_csv |-> r.unmapped_csv, ret |-> r.ret]
    ELSE IF summary_line(all_rows, r.df_debits, r.df_credits) = "WARNING"
    THEN [outcome |-> "raised", error |-> "Output sums do NOT match PDF summary!",
          summary |-> "WARNING", df_debits |-> <<>>, df_credits |-> <<>>,
          debit_csv |-> NoFile, credit_csv |-> NoFile, unmapped_csv |-> NoFile,
          ret |-> <<>>]
    ELSE [outcome |-> r.outcome, error |-> r.error,
          summary |-> summary_line(all_rows, r.df_debits, r.df_credits),
          df_debits |-> r.df_debits, df_credits |-> r.df_credits,
          debit_csv |-> r.debit_csv, credit_csv |-> r.credit_csv,
          unmapped_csv |-> r.unmapped_csv, ret |-> r.ret]

\* process_tcb_statement with its summary validation: the validation runs
\* on the numbered batches, prints one line, and the exports follow whatever
\* it printed
tcb4_validated(all_rows, r) ==
    [outcome |-> r.outcome, error |-> r.error,
     summary |-> IF r.outcome = "raised" THEN ""
                 ELSE summary_line(all_rows, r.df_debits, r.df_credits),
     df_debits |-> r.df_debits, df_credits |-> r.df_credits,
     debit_csv |-> r.debit_csv, credit_csv |-> r.credit_csv,
     unmapped_csv |-> r.unmapped_csv, ret |-> r.ret]

(***************************************************************************)
(* extract_tables_with_doc_ai of tcb_processor.py: from the backend's      *)
(* tables to the grid.  A table is the sequence of its header and body     *)
(* rows, a row the sequence of its cells, a cell a record with row_index,  *)
(* column_index and the text_segments of its text anchor; a segment is a   *)
(* pair of offsets into the document text.                                 *)
(***************************************************************************)
\* Python's text[start_index:end_index]
TextSlice(text, segment) == SubSeq(text, segment.start_index + 1, segment.end_index)

\* cell for row in all_cells for cell in row.cells
RECURSIVE cells_of(_)
cells_of(all_cells) ==
    IF all_cells = <<>> THEN <<>> ELSE Head(all_cells) \o cells_of(Tail(all_cells))

\* max(cell.row_index ...)
max_row(cells) ==
    CHOOSE m \in {cells[i].row_index : i \in 1..Len(cells)} :
        \A i \in 1..Len(cells) : cells[i].row_index <= m

\* max(cell.column_index ...)
max_col(cells) ==
    CHOOSE m \in {cells[i].column_index : i \in 1..Len(cells)} :
        \A i \in 1..Len(cells) : cells[i].column_index <= m

\* [["" for _ in range(max_col + 1)] for _ in range(max_row + 1)]
blank_grid(rows, cols) == [r \in 1..rows |-> [c \in 1..cols |-> ""]]

\* the text a cell contributes: the slice of its first text segment, trimmed
content(text, cell) == Strip(TextSlice(text, cell.text_segments[1]))

\* the loop that writes the cells into the grid, in the order of the list
RECURSIVE fill_grid(_, _, _, _)
fill_grid(grid, text, cells, i) ==
    IF i > Len(cells) THEN grid
    ELSE fill_grid(
            IF cells[i].text_segments # <<>>
            THEN [grid EXCEPT ![cells[i].row_index + 1][cells[i].column_index + 1] =
                                 content(text, cells[i])]
            ELSE grid,
            text, cells, i + 1)

\* the grid of one table that has a cell
table_grid(text, all_cells) ==
    fill_grid(blank_grid(max_row(cells_of(all_cells)) + 1,
                         max_col(cells_of(all_cells)) + 1),
              text, cells_of(all_cells), 1)

\* the loop over the tables: a table without rows is skipped, max() of a
\* table whose rows have no cell raises ValueError, the grids are appended
RECURSIVE extract_tables_with_doc_ai(_, _)
extract_tables_with_doc_ai(text, tables) ==
    IF tables = <<>> THEN [error |-> "", all_rows |-> <<>>]
    ELSE IF Head(tables) = <<>> THEN extract_tables_with_doc_ai(text, Tail(tables))
    ELSE IF cells_of(Head(tables)) = <<>>
         THEN [error |-> "max() arg is an empty sequence", all_rows |-> <<>>]
    ELSE LET rest == extract_tables_with_doc_ai(text, Tail(tables)) IN
         IF rest.error # "" THEN rest
         ELSE [error |-> "", all_rows |-> table_grid(text, Head(tables)) \o rest.all_rows]

(***************************************************************************)
(* Three-column TCB statement (.ipynb_checkpoints/tcb_processor-checkpoint) *)
(***************************************************************************)
\* clean_string
clean_string(s) == RemoveNonAlnumLower(Lower(s))

\* FUZZY_COLUMN_TOKENS, in declaration order
FUZZY_COLUMN_TOKENS ==
    << <<"DATE", <<"date", "txn date", "posted">> >>,
       <<"DESCRIPTION", <<"description", "website", "details", "activity">> >>,
       <<"AMOUNT_COMBINED", <<"debit", "credit", "amount", "balance", "debtscredits">> >> >>

\* cleaned_term = clean_string(term), for the search terms of every field
cleaned_terms ==
    MapSeq(LAMBDA field : MapSeq(clean_string, field[2]), FUZZY_COLUMN_TOKENS)

RECURSIVE FirstPoolMatch(_, _, _, _)
\* next(cleaned_name for cleaned_name in cleaned_cols.keys() if term in it):
\* the first column position i..Len(cleaned) still in pool whose cleaned
\* name contains term, 0 for None
FirstPoolMatch(cleaned, pool, term, i) ==
    IF i > Len(cleaned) THEN 0
    ELSE IF i \in pool /\ term # "" /\ Contains(term, cleaned[i]) THEN i
    ELSE FirstPoolMatch(cleaned, pool, term, i + 1)

RECURSIVE FirstTermMatch(_, _, _)
\* the inner loop over a field's search terms: the column taken by the
\* first term that finds one, 0 when no term does
FirstTermMatch(cleaned, pool, terms) ==
    IF terms = <<>> THEN 0
    ELSE LET c == FirstPoolMatch(cleaned, pool, Head(terms), 1)
         IN IF c # 0 THEN c ELSE FirstTermMatch(cleaned, pool, Tail(terms))

RECURSIVE ResolveFromKeepingPool(_, _, _)
\* a resolution that leaves a column found in the search pool
ResolveFromKeepingPool(cleaned, pool, f) ==
    IF f > Len(FUZZY_COLUMN_TOKENS) THEN <<>>
    ELSE <<FirstTermMatch(cleaned, pool, cleaned_terms[f])>>
         \o ResolveFromKeepingPool(cleaned, pool, f + 1)

RECURSIVE ResolveFrom(_, _, _)
\* the outer loop from field f on: the column assigned to each canonical
\* field (0 = not found); a column found is deleted from the pool
ResolveFrom(cleaned, pool, f) ==
    IF f > Len(FUZZY_COLUMN_TOKENS) THEN <<>>
    ELSE LET c == FirstTermMatch(cleaned, pool, cleaned_terms[f])
         IN <<c>> \o ResolveFrom(cleaned, pool \ {c}, f + 1)

\* the keys of cleaned_cols = {clean_string(col): col ...}: one entry per
\* cleaned name, at the position of its first occurrence
CleanedPool(cleaned) ==
    {i \in 1..Len(cleaned) : \A j \in 1..(i - 1) : cleaned[j] # cleaned[i]}

\* cleaned_cols[cleaned_name]: the dict keeps, for a cleaned name, the last
\* column that has it
OriginalOf(cleaned, i) ==
    IF i = 0 THEN 0
    ELSE CHOOSE j \in i..Len(cleaned) :
            /\ cleaned[j] = cleaned[i]
            /\ \A l \in (j + 1)..Len(cleaned) : cleaned[l] # cleaned[i]

\* <<column of DATE, column of DESCRIPTION, column of AMOUNT_COMBINED>>
resolve_columns(columns) ==
    CHOOSE resolved \in
        { MapSeq(LAMBDA c : OriginalOf(cleaned, c),
                 ResolveFrom(cleaned, CleanedPool(cleaned), 1)) :
            cleaned \in {MapSeq(clean_string, [i \in 1..Len(columns) |-> columns[i]])} } :
        TRUE

\* missing_cols, given the resolution
missing_cols(resolved) ==
    MapSeq(LAMBDA f : FUZZY_COLUMN_TOKENS[f][1],
           SelectIdx(Len(resolved), [f \in 1..Len(resolved) |-> resolved[f] = 0], 1))

RECURSIVE ReplaceChar(_, _, _)
\* str.replace of one character by a text
ReplaceChar(s, c, by) ==
    IF s = "" THEN ""
    ELSE (IF Char(s, 1) = c THEN by ELSE Char(s, 1)) \o ReplaceChar(Rest(s), c, by)

\* clean_amount
clean_amount(cell) ==
    LET cleaned == Strip(RemoveChars(cell, "$, "))
        signed == ReplaceChar(ReplaceChar(cleaned, "(", "-"), ")", "")
    IN to_numeric_fill0(signed)

\* map_debit_account
map_debit_account(desc) ==
    LET m == FirstMatch(tcb3_debit_account_map, DeclOrder(tcb3_debit_account_map),
                        Upper(desc))
    IN IF m = 0 THEN "7800" ELSE tcb3_debit_account_map[m][2]

RECURSIVE BestMatch(_, _, _, _)
\* for k in keys: if k in desc_upper and len(k) > len(best_match): best = k
BestMatch(map, i, desc_upper, best) ==
    IF i > Len(map) THEN best
    ELSE BestMatch(map, i + 1, desc_upper,
                   IF Contains(map[i][1], desc_upper) /\ Len(map[i][1]) > Len(best)
                   THEN map[i][1] ELSE best)

\* get_short_description
get_short_description(desc) ==
    LET d == BestMatch(tcb3_debit_account_map, 1, Upper(desc), "")
        b == BestMatch(tcb3_credit_account_map, 1, Upper(desc), d)
    IN IF b # "" THEN b ELSE desc

\* one row after typing, column selection and classification; i is the
\* row's index label in the concatenated frame
tcb3_typed_row(col, i, row) ==
    LET amount == clean_amount(row[col[3]])
    IN [idx |-> i,
        Date |-> to_datetime(row[col[1]]),
        DESCRIPTION |-> row[col[2]],
        Amount |-> amount,
        Account |-> IF amount < 0 THEN map_debit_account(row[col[2]]) ELSE "4000",
        ShortDescription |-> get_short_description(row[col[2]])]

tcb3_typed(table, col) ==
    MapIdx(LAMBDA i, row : tcb3_typed_row(col, i, row), table.rows)

RECURSIVE join_comma(_)
\* ', '.join(missing_cols)
join_comma(names) ==
    IF names = <<>> THEN ""
    ELSE IF Len(names) = 1 THEN names[1]
    ELSE names[1] \o ", " \o join_comma(Tail(names))

\* dropna(subset=['DATE', 'DESCRIPTION']) and df[df['Amount'] != 0]
tcb3_keep(r) == r.Date # NaT /\ r.Amount # 0

\* the parse up to "Final data filtering": the exception it raises ("" for
\* none), the missing canonical fields and the filtered frame; dfs holds
\* the extracted tables
tcb3_parse(dfs) ==
    IF dfs = <<>> THEN [error |-> "Document AI did not return any structured tables", missing |-> <<>>, df |-> <<>>]
    ELSE LET col == resolve_columns(dfs[1].columns)
             filtered == Filter(tcb3_keep, tcb3_typed(dfs[1], col))
         IN IF missing_cols(col) # <<>>
            THEN [error |-> "Can't locate table header. Missing required columns: "
                               \o join_comma(missing_cols(col)),
                  missing |-> missing_cols(col), df |-> <<>>]
            ELSE IF filtered = <<>>
            THEN [error |-> "No valid transactions found", missing |-> <<>>, df |-> <<>>]
            ELSE [error |-> "", missing |-> <<>>, df |-> filtered]

tcb3_is_credit(r) == r.Amount > 0

\* a split of the outflows that does not look at the sign
tcb3_is_debit_unsigned(r) == r.Amount # 0

tcb3_is_debit(r) == r.Amount < 0

tcb3_batch_row(prefix, start, k, r) ==
    [idx |-> r.idx,
     Date |-> r.Date,
     DESCRIPTION |-> r.DESCRIPTION,
     Amount |-> r.Amount,
     Account |-> r.Account,
     ShortDescription |-> r.ShortDescription,
     AmountAbs |-> Abs(r.Amount),
     Document |-> DocumentId(prefix, start, k - 1)]

\* df_credits with AmountAbs and Document
tcb3_credits(sorted, dp) ==
    MapIdx(LAMBDA k, r : tcb3_batch_row("DP#", dp, k, r), Filter(tcb3_is_credit, sorted))

\* df_debits with AmountAbs and Document
tcb3_debits(sorted, gj) ==
    MapIdx(LAMBDA k, r : tcb3_batch_row("GJ#", gj, k, r), Filter(tcb3_is_debit, sorted))

tcb3_credit_export_row(r) ==
    <<strftime_mdY(r.Date), r.Document, "1100", r.ShortDescription, r.AmountAbs,
      "4000", r.ShortDescription, -r.AmountAbs>>

tcb3_debit_export_row(r) ==
    <<strftime_mdY(r.Date), r.Document, r.Account, r.ShortDescription, r.AmountAbs,
      "1100", r.ShortDescription, -r.AmountAbs>>

tcb3_credit_export(frame) == MapSeq(tcb3_credit_export_row, frame)

tcb3_debit_export(frame) == MapSeq(tcb3_debit_export_row, frame)

tcb3_is_unmapped(r) == r.Account = "7800" /\ r.Amount < 0

\* unmapped_df written with columns DATE, DESCRIPTION, AbsoluteAmount,
\* TransactionType, Account
tcb3_unmapped_row(r) ==
    <<csv_date(r.Date), r.DESCRIPTION, Abs(r.Amount), "Debit", r.Account>>

tcb3_unmapped(sorted) == MapSeq(tcb3_unmapped_row, Filter(tcb3_is_unmapped, sorted))

\* steps 3 to 5 on the sorted frame
tcb3_finish(sorted, gj, dp) ==
    LET credits == tcb3_credits(sorted, dp)
        debits == tcb3_debits(sorted, gj)
        unmapped == tcb3_unmapped(sorted)
    IN [outcome |-> "returned",
        error |-> "",
        df |-> sorted,
        df_credits |-> credits,
        df_debits |-> debits,
        credit_csv |-> IF credits = <<>> THEN NoFile ELSE File(tcb3_credit_export(credits)),
        debit_csv |-> IF debits = <<>> THEN NoFile ELSE File(tcb3_debit_export(debits)),
        unmapped_csv |-> IF unmapped = <<>> THEN NoFile ELSE File(unmapped),
        ret |-> <<IF credits = <<>> THEN None ELSE "TCB_deposits.csv",
                  IF debits = <<>> THEN None ELSE "TCB_withdrawals.csv",
                  IF unmapped = <<>> THEN None ELSE "TCB_unmapped.csv">>]

\* process_tcb_statement of the draft from the filtered frame on: the
\* exceptions (no tables, a required column missing, no transaction left)
\* leave it before the first export
tcb3_run(error, sorted, gj, dp) ==
    IF error # ""
    THEN [outcome |-> "raised", error |-> error, df |-> <<>>, df_credits |-> <<>>,
          df_debits |-> <<>>, credit_csv |-> NoFile, debit_csv |-> NoFile,
          unmapped_csv |-> NoFile, ret |-> <<>>]
    ELSE tcb3_finish(sorted, gj, dp)

\* the text of the segments of one text anchor, joined in order
RECURSIVE joined_segments(_, _)
joined_segments(text, text_segments) ==
    IF text_segments = <<>> THEN ""
    ELSE SubSeq(text, Head(text_segments).start_index + 1, Head(text_segments).end_index)
         \o joined_segments(text, Tail(text_segments))

\* get_text_from_dimensions: the text of a layout, trimmed
get_text_from_dimensions(text, layout) == Strip(joined_segments(text, layout.text_segments))

(***************************************************************************)
(* Bounds and inputs                                                       *)
(***************************************************************************)
\* rows of an uploaded card CSV
MaxRows == 2

\* rows of the grid extracted from a TCB statement
MaxGridRows == 3

\* body rows of the table of a three-column TCB statement
MaxTableRows == 2

\* largest starting document number entered in the upload form
MaxStartNum == 2

SeqsUpTo(S, n) == UNION {[1..k -> S] : k \in 0..n}

\* the starting numbers entered in the upload form: the form's default and
\* the largest one
StartNums == {1, MaxStartNum}

CapOneRow(d, desc, debit, credit) ==
    [Date |-> d, Description |-> desc, Debit |-> debit, Credit |-> credit]

\* rows of a Capital One export
CapOneRows ==
    { CapOneRow("01/05/2024", "WALMART #4521", "45.00", "0"),
      CapOneRow("01/03/2024", "The Home Depot #123", "12.50", ""),
      CapOneRow("01/03/2024", "TEMU.COM order", "20.00", ""),
      CapOneRow("01/04/2024", "Joe's Cafe", "8.25", ""),
      CapOneRow("01/02/2024", "Amazon Mark refund", "", "30.00"),
      CapOneRow("01/06/2024", "Balance transfer", "0", "0"),
      CapOneRow("n/a", "Store credit", "abc", "5.00"),
      CapOneRow("01/05/2024", "REMOTEPc annual", "9.99", ""),
      CapOneRow("01/07/2024", "ATT pay at HEB", "15.00", "") }

ChaseRow(d, desc, amount) == [Date |-> d, Description |-> desc, Amount |-> amount]

\* rows of a Chase 7772 export
ChaseRows ==
    { ChaseRow("01/05/2024", "AMAZON MKTPL*AB12", "-45.00"),
      ChaseRow("01/03/2024", "Spectrum Mobile", "-60.00"),
      ChaseRow("01/03/2024", "H-E-B GAS #12", "-30.00"),
      ChaseRow("01/04/2024", "Joe's Cafe", "-8.25"),
      ChaseRow("01/02/2024", "AUTOMATIC PAYMENT - THANK", "500.00"),
      ChaseRow("01/06/2024", "Mystery refund", "12.00"),
      ChaseRow("n/a", "OPENAI", "abc"),
      ChaseRow("01/05/2024", "", "-5.00"),
      ChaseRow("01/07/2024", "OPENAI via FACEBK", "-20.00") }

\* rows of the grid the OCR backend returns for a four-column statement
GridRows ==
    { <<"Date", "Business Website or Description", "Debits", "Credits">>,
      <<"DATE", "DESC", "DEBIT", "CREDIT">>,
      <<"01/05/2024", "Chase Visa Pmt 3506", "250.004", "">>,
      <<"01/03/2024", "Joe's Cafe", "$1,000.50", "">>,
      <<"01/03/2024", "dda regular check #1042", "45.00", "">>,
      <<"01/04/2024", "Regular Deposit", "", "300.00">>,
      <<"01/02/2024", "Transfer", "10.00", "10.00">>,
      <<"n/a", "ADT ALARM", "(20.00)">>,
      <<"01/06/2024", "Void", "abc", "0.00">>,
      <<"TOTAL", "", "$10.00", "10.50">> }

\* the vendor tables of tcb_processor.py: as written in the file (empty), as
\* declared in the three-column draft, and a table extended by hand with a
\* general key declared before a more specific one
TcbMapConfigs ==
    { [debit |-> <<>>, credit |-> <<>>],
      [debit |-> tcb3_debit_account_map, credit |-> tcb3_credit_account_map],
      [debit |-> << <<"CHASE VISA PMT", "2135">>, <<"CHASE VISA PMT 3506", "2136">> >>,
       credit |-> << <<"DEPOSIT", "DEPOSIT">>, <<"REGULAR DEPOSIT", "REGULAR DEPOSIT">> >>] }

\* header rows of the tables of a three-column statement; cell[c] tells
\* which of a transaction's texts (1 date, 2 description, 3 amount) the
\* statement prints in column c
Tcb3Headers ==
    { [names |-> <<"Date", "Description", "Debits/Credits">>, cell |-> <<1, 2, 3>>],
      [names |-> <<"Amount", "Details", "Posted">>, cell |-> <<3, 2, 1>>],
      [names |-> <<"Date", "Description">>, cell |-> <<1, 2>>],
      [names |-> <<"Activity Date", "Date", "Amount">>, cell |-> <<2, 1, 3>>] }

\* body rows of a three-column statement, in the order date, description,
\* amount
Tcb3Cells ==
    { <<"01/05/2024", "Capital One Visa Pmt", "(250.00)">>,
      <<"01/03/2024", "ADT ALARM IPAY BILL PAY", "-40.00">>,
      <<"01/03/2024", "Regular Deposit", "$1,300.00">>,
      <<"01/04/2024", "Joe's Cafe", "(8.25)">>,
      <<"n/a", "EVERON ALARM", "(20.00)">>,
      <<"01/06/2024", "Void", "abc">>,
      <<"01/02/2024", "USA TAX PYMT IRS CCD", "(100.00)">> }

\* a body row laid out under a header
Tcb3Layout(h, cells) == [c \in 1..Len(h.names) |-> cells[h.cell[c]]]

\* the tables extract_tables_with_doc_ai returns (the draft): none, or one
\* table with its header and at least one body row
Tcb3Inputs ==
    {<<>>} \cup
    { <<[columns |-> h.names, rows |-> [i \in 1..Len(cs) |-> Tcb3Layout(h, cs[i])]]>> :
        h \in Tcb3Headers, cs \in SeqsUpTo(Tcb3Cells, MaxTableRows) \ {<<>>} }

\* statements that end with a summary row: the header, some transactions
\* and a row whose first cell contains "TOTAL"
TcbHeaderRow == <<"Date", "Business Website or Description", "Debits", "Credits">>

SummaryDataRows ==
    { <<"01/05/2024", "Chase Visa Pmt 3506", "250.004", "">>,
      <<"01/03/2024", "Joe's Cafe", "$1,000.50", "">>,
      <<"01/04/2024", "Regular Deposit", "", "300.00">>,
      <<"01/02/2024", "Transfer", "10.00", "10.00">> }

\* summary rows with no numeric value, one, two and three; matching the
\* batch totals exactly, within one unit, in either order, or not at all;
\* with currency signs, thousands separators, parentheses and a sign
SummaryRows ==
    { <<"TOTAL", "", "", "">>,
      <<"Total", "n/a", "10.00">>,
      <<"TOTAL", "", "$10.00", "10.50">>,
      <<"TOTAL", "", "300.00", "250.00">>,
      <<"Grand total", "1", "250.00", "0.00">>,
      <<"TOTAL", "", "(250.00)", "-300.00">>,
      <<"Totals", "", "$1,000.50", "0">>,
      <<"TOTAL", "", "99999.00", "99999.00">> }

SummaryGrids ==
    { <<TcbHeaderRow>> \o data \o <<total>> :
        data \in SeqsUpTo(SummaryDataRows, MaxGridRows - 2), total \in SummaryRows }

\* the text buffer of a processed document and the segments its cells
\* point to: "Chase Visa" and " Pmt 3506 "
DocumentText == "Chase Visa  Pmt 3506 "

FirstSegment == [start_index |-> 0, end_index |-> 10]

SecondSegment == [start_index |-> 11, end_index |-> 21]

\* text anchors: no segment, one segment, and a text in two segments
TextAnchors ==
    {<<>>, <<FirstSegment>>, <<SecondSegment>>, <<FirstSegment, SecondSegment>>}

\* the cells of a sparse table: two rows, the first and the third column
BackendCells ==
    [row_index : {0, 1}, column_index : {0, 2}, text_segments : TextAnchors]

\* a table row with no cell or with one cell
BackendRows == {<<>>} \cup {<<cell>> : cell \in BackendCells}

\* the tables of a document: one table of up to MaxTableRows rows
BackendTables == {<<table>> : table \in SeqsUpTo(BackendRows, MaxTableRows)}

(***************************************************************************)
(* State                                                                   *)
(***************************************************************************)
VARIABLES
    debit_account_map,      \* tcb_processor.debit_account_map
    credit_account_map,     \* tcb_processor.credit_account_map
    parser,                 \* the processor the last upload ran, "none" at the form
    input,                  \* the uploaded statement
    gj_startnum,            \* form field
    dp_startnum,            \* form field
    outcome,                \* "idle", "returned" or "raised"
    error,                  \* the exception the processor raised, "" for none
    ret,                    \* the tuple of paths the processor returned
    df,                     \* card parsers, draft: the sorted frame; TCB: the typed frame
    df_debits,              \* TCB: the debit batch
    df_credits,             \* TCB: the credit batch
    export_csv,             \* card parsers: the import file
    debit_csv,              \* TCB: the debit file
    credit_csv,             \* TCB: the credit file
    unmapped_csv,           \* the unmapped report
    summary,                \* TCB: the line the summary validation printed
    extracted               \* TCB: the rows extract_tables_with_doc_ai returned

vars == <<debit_account_map, credit_account_map, parser, input, gj_startnum,
          dp_startnum, outcome, error, ret, df, df_debits, df_credits, export_csv,
          debit_csv, credit_csv, unmapped_csv, summary, extracted>>

maps == <<debit_account_map, credit_account_map>>

\* nothing uploaded: the form is shown, the run has written no file
AtForm ==
    /\ parser = "none"
    /\ input = <<>>
    /\ gj_startnum = 1
    /\ dp_startnum = 1
    /\ outcome = "idle"
    /\ error = ""
    /\ ret = <<>>
    /\ df = <<>>
    /\ df_debits = <<>>
    /\ df_credits = <<>>
    /\ export_csv = NoFile
    /\ debit_csv = NoFile
    /\ credit_csv = NoFile
    /\ unmapped_csv = NoFile
    /\ summary = ""
    /\ extracted = <<>>

Init ==
    /\ \E cfg \in TcbMapConfigs :
          /\ debit_account_map = cfg.debit
          /\ credit_account_map = cfg.credit
    /\ AtForm

(***************************************************************************)
(* Actions                                                                 *)
(***************************************************************************)
\* upload_capone: process_capone_csv on the uploaded file
UploadCapOne ==
    /\ outcome = "idle"
    /\ \E rows \in SeqsUpTo(CapOneRows, MaxRows) :
       \E filtered \in {capone_filtered(rows)} :
       \E order \in SortedOrders(Dates(filtered)), gj \in StartNums :
       \E r \in {capone_finish(Take(filtered, order), gj)} :
          /\ parser' = "capone"
          /\ input' = rows
          /\ gj_startnum' = gj
          /\ outcome' = r.outcome
          /\ error' = r.error
          /\ df' = r.df
          /\ ret' = r.ret
          /\ export_csv' = r.export_csv
          /\ unmapped_csv' = r.unmapped_csv
    /\ UNCHANGED <<maps, dp_startnum, df_debits, df_credits, debit_csv, credit_csv, summary, extracted>>

\* upload_chase7772: process_chase7772_csv on the uploaded file
UploadChase7772 ==
    /\ outcome = "idle"
    /\ \E rows \in SeqsUpTo(ChaseRows, MaxRows) :
       \E typed \in {chase_typed(rows)} :
       \E order \in SortedOrders(Dates(typed)), gj \in StartNums :
       \E e \in chase_errors(rows) :
       \E r \in {chase_run(e, Take(typed, order), gj)} :
          /\ parser' = "chase"
          /\ input' = rows
          /\ gj_startnum' = gj
          /\ outcome' = r.outcome
          /\ error' = r.error
          /\ df' = r.df
          /\ ret' = r.ret
          /\ export_csv' = r.export_csv
          /\ unmapped_csv' = r.unmapped_csv
    /\ UNCHANGED <<maps, dp_startnum, df_debits, df_credits, debit_csv, credit_csv, summary, extracted>>

\* upload_tcb: process_tcb_statement of tcb_processor.py on the grid
UploadTcb ==
    /\ outcome = "idle"
    /\ \E all_rows \in SeqsUpTo(GridRows, MaxGridRows) :
       \E p \in {tcb4_parse(all_rows)} :
       \E deb \in {tcb4_debits(p.df)}, cre \in {tcb4_credits(p.df)} :
       \E od \in SortedOrders(Dates(deb)), oc \in SortedOrders(Dates(cre)) :
       \E sd \in {Take(deb, od)}, sc \in {Take(cre, oc)} :
       \E gj \in StartNums, dp \in StartNums :
       \E run \in {tcb4_run(p.error, sd, sc,
                             debit_account_map, credit_account_map, gj, dp)} :
       \E r \in {tcb4_validated(all_rows, run)} :
          /\ parser' = "tcb4"
          /\ input' = all_rows
          /\ gj_startnum' = gj
          /\ dp_startnum' = dp
          /\ outcome' = r.outcome
          /\ error' = r.error
          /\ summary' = r.summary
          /\ extracted' = all_rows
          /\ df' = p.df
          /\ df_debits' = r.df_debits
          /\ df_credits' = r.df_credits
          /\ debit_csv' = r.debit_csv
          /\ credit_csv' = r.credit_csv
          /\ unmapped_csv' = r.unmapped_csv
          /\ ret' = r.ret
    /\ UNCHANGED <<maps, export_csv>>

\* upload_tcb on a statement that ends with a summary row
UploadTcbSummarised ==
    /\ outcome = "idle"
    /\ \E all_rows \in SummaryGrids :
       \E p \in {tcb4_parse(all_rows)} :
       \E deb \in {tcb4_debits(p.df)}, cre \in {tcb4_credits(p.df)} :
       \E od \in SortedOrders(Dates(deb)), oc \in SortedOrders(Dates(cre)) :
       \E sd \in {Take(deb, od)}, sc \in {Take(cre, oc)} :
       \E gj \in StartNums, dp \in StartNums :
       \E run \in {tcb4_run(p.error, sd, sc,
                             debit_account_map, credit_account_map, gj, dp)} :
       \E r \in {tcb4_validated(all_rows, run)} :
          /\ parser' = "tcb4"
          /\ input' = all_rows
          /\ gj_startnum' = gj
          /\ dp_startnum' = dp
          /\ outcome' = r.outcome
          /\ error' = r.error
          /\ summary' = r.summary
          /\ extracted' = all_rows
          /\ df' = p.df
          /\ df_debits' = r.df_debits
          /\ df_credits' = r.df_credits
          /\ debit_csv' = r.debit_csv
          /\ credit_csv' = r.credit_csv
          /\ unmapped_csv' = r.unmapped_csv
          /\ ret' = r.ret
    /\ UNCHANGED <<maps, export_csv>>

\* process_tcb_statement of the three-column draft on the extracted tables
UploadTcbDraft ==
    /\ outcome = "idle"
    /\ \E dfs \in Tcb3Inputs :
       \E p \in {tcb3_parse(dfs)} :
       \E gj \in StartNums, dp \in StartNums :
       \E order \in SortedOrders(Dates(p.df)) :
       \E r \in {tcb3_run(p.error, Take(p.df, order), gj, dp)} :
          /\ parser' = "tcb3"
          /\ input' = dfs
          /\ gj_startnum' = gj
          /\ dp_startnum' = dp
          /\ outcome' = r.outcome
          /\ error' = r.error
          /\ df' = r.df
          /\ df_credits' = r.df_credits
          /\ df_debits' = r.df_debits
          /\ credit_csv' = r.credit_csv
          /\ debit_csv' = r.debit_csv
          /\ unmapped_csv' = r.unmapped_csv
          /\ ret' = r.ret
    /\ UNCHANGED <<maps, export_csv, summary, extracted>>

\* extract_tables_with_doc_ai of tcb_processor.py on the tables the backend
\* returned for a document
ExtractTables ==
    /\ outcome = "idle"
    /\ \E tables \in BackendTables :
       \E r \in {extract_tables_with_doc_ai(DocumentText, tables)} :
          /\ parser' = "doc_ai"
          /\ input' = tables
          /\ outcome' = IF r.error = "" THEN "returned" ELSE "raised"
          /\ error' = r.error
          /\ extracted' = r.all_rows
    /\ UNCHANGED <<maps, gj_startnum, dp_startnum, ret, df, df_debits, df_credits,
                   export_csv, debit_csv, credit_csv, unmapped_csv, summary>>

\* home: the form is served again for the next statement
Home ==
    /\ outcome # "idle"
    /\ parser' = "none"
    /\ input' = <<>>
    /\ gj_startnum' = 1
    /\ dp_startnum' = 1
    /\ outcome' = "idle"
    /\ error' = ""
    /\ ret' = <<>>
    /\ df' = <<>>
    /\ df_debits' = <<>>
    /\ df_credits' = <<>>
    /\ export_csv' = NoFile
    /\ debit_csv' = NoFile
    /\ credit_csv' = NoFile
    /\ unmapped_csv' = NoFile
    /\ summary' = ""
    /\ extracted' = <<>>
    /\ UNCHANGED maps

Next ==
    \/ UploadCapOne
    \/ UploadChase7772
    \/ UploadTcb
    \/ UploadTcbDraft
    \/ Home

Spec == Init /\ [][Next]_vars

\* the four-column parser on statements that carry a summary row
SummaryNext ==
    \/ UploadTcbSummarised
    \/ Home

SummarySpec == Init /\ [][SummaryNext]_vars

\* the extraction step alone, on the backend's tables
ExtractNext ==
    \/ ExtractTables
    \/ Home

ExtractSpec == Init /\ [][ExtractNext]_vars

(***************************************************************************)
(* Properties                                                              *)
(***************************************************************************)
Returned == outcome = "returned"

\* the primary exports of a run: the card import file, the TCB debit file
\* and the TCB credit file
PrimaryFiles == {export_csv, debit_csv, credit_csv}

\* the entries of map whose key occurs in text
Occurring(map, text) == {i \in 1..Len(map) : Contains(map[i][1], text)}

ProperSubstring(a, b) == a # b /\ Contains(a, b)

\* the phrase that marks a paper check, in any casing
HasCheckPhrase(desc) == Contains("DDA REGULAR CHECK", Upper(desc))

(***************************************************************************)
(* C1                                                                      *)
(***************************************************************************)
Balanced(file) ==
    \A k \in 1..Len(file.rows) :
        Round2(file.rows[k][5]) + Round2(file.rows[k][8]) = 0

\* C1: in every row of every primary export (TCB debit file, TCB credit
\* file, CapOne import, Chase 7772 import), whatever the sign of the input
\* amount, field 5 and field 8 sum to zero after rounding to 2 decimals.
C1_DoubleEntryBalance == \A file \in PrimaryFiles : Balanced(file)

\* the balance holds in every export other than the Chase import
C1_BalanceOutsideChase == parser # "chase" => C1_DoubleEntryBalance

\* a Chase run that exported a charge (a negative amount)
C1_ChaseCharge ==
    /\ parser = "chase"
    /\ Returned
    /\ \E k \in 1..Len(export_csv.rows) : export_csv.rows[k][5] < 0

(***************************************************************************)
(* C2                                                                      *)
(***************************************************************************)
\* the date written in field 1 of an export row: "" for a missing date,
\* YYYY-MM-DD, MM/DD/YY or MM/DD/YYYY
ExportDate(text) ==
    IF text = "" THEN NaT
    ELSE IF Char(text, 5) = "-"
    THEN DigitsValue(SubSeq(text, 1, 4)) * 10000
         + DigitsValue(SubSeq(text, 6, 7)) * 100 + DigitsValue(SubSeq(text, 9, 10))
    ELSE (IF Len(text) = 8 THEN 2000 + DigitsValue(SubSeq(text, 7, 8))
          ELSE DigitsValue(SubSeq(text, 7, 10))) * 10000
         + DigitsValue(SubSeq(text, 1, 2)) * 100 + DigitsValue(SubSeq(text, 4, 5))

\* row k (from 1) carries prefix + (start + k - 1)
Numbered(file, prefix, start) ==
    \A k \in 1..Len(file.rows) : file.rows[k][2] = prefix \o ToString(start + (k - 1))

\* no row is dated before a row above it; rows without a date come last
DateOrdered(file) ==
    \A j, k \in 1..Len(file.rows) :
        (j < k /\ ExportDate(file.rows[k][1]) # NaT) =>
            /\ ExportDate(file.rows[j][1]) # NaT
            /\ ExportDate(file.rows[j][1]) <= ExportDate(file.rows[k][1])

\* C2: in each batch (TCB debits GJ#/gj_startnum, TCB credits
\* DP#/dp_startnum, CapOne and Chase rows GJ#/gj_startnum) the k-th emitted
\* row, k = 0..n-1, carries prefix + (start + k), and the emitted rows are in
\* non-decreasing date order.
C2_DocumentNumbering ==
    /\ Numbered(export_csv, "GJ#", gj_startnum)
    /\ Numbered(debit_csv, "GJ#", gj_startnum)
    /\ Numbered(credit_csv, "DP#", dp_startnum)
    /\ \A file \in PrimaryFiles : DateOrdered(file)

\* a statement whose debits were listed latest first, numbered from a
\* counter above 1
C2_ReorderedBatch ==
    /\ parser = "tcb4"
    /\ Returned
    /\ gj_startnum > 1
    /\ Len(debit_csv.rows) >= 2
    /\ df_debits[1].idx > df_debits[2].idx
    /\ debit_csv.rows[1][1] # debit_csv.rows[2][1]

(***************************************************************************)
(* C3                                                                      *)
(***************************************************************************)
\* of two occurring keys one of which is inside the other, the account is
\* that of the longer one (the outermost of a chain)
LongestWins(map, text, account) ==
    LET occ == Occurring(map, text)
    IN \A i, j \in occ :
          (/\ ProperSubstring(map[i][1], map[j][1])
           /\ \A l \in occ : ~ProperSubstring(map[j][1], map[l][1]))
          => account = map[j][2]

C3_CapOne ==
    parser = "capone" =>
        \A k \in 1..Len(df) :
            LongestWins(capone_account_map, Upper(df[k].Description_Clean), df[k].Account)

C3_Chase ==
    parser = "chase" =>
        \A k \in 1..Len(df) :
            LongestWins(chase_account_map, Upper(df[k].CleanDescription), df[k].Account)

C3_TcbDebit ==
    (parser = "tcb4" /\ Returned) =>
        \A k \in 1..Len(df_debits) :
            LongestWins(debit_account_map, Upper(df_debits[k].DESCRIPTION),
                        df_debits[k].Account)

\* C3: whenever two keys of a vendor map both occur in the upper-cased
\* description and one is a proper substring of the other, the row gets the
\* account of the longer key: in CapOne's map_account, in Chase's
\* map_account and in the TCB debit-account mapping, whatever the order in
\* which the map declares its keys.
C3_LongestMatch == C3_CapOne /\ C3_Chase /\ C3_TcbDebit

\* a TCB debit whose description holds a key and a longer key around it
C3_NestedKeysInDebit ==
    /\ parser = "tcb4"
    /\ Returned
    /\ \E k \in 1..Len(df_debits) :
          \E i, j \in Occurring(debit_account_map, Upper(df_debits[k].DESCRIPTION)) :
              /\ ProperSubstring(debit_account_map[i][1], debit_account_map[j][1])
              /\ debit_account_map[i][2] # debit_account_map[j][2]

(***************************************************************************)
(* C4                                                                      *)
(***************************************************************************)
\* the amount column of a row of the unmapped report
UnmappedAmount(row) == IF parser = "capone" THEN row[5] ELSE row[3]

\* C4: no row of a primary export, of the split credit/debit files or of
\* the unmapped report has amount 0, rows whose amount text was unparsable
\* and coerced to 0 included; for CapOne, Chase 7772 and both TCB parsers.
C4_NoZeroAmount ==
    /\ \A file \in PrimaryFiles : \A k \in 1..Len(file.rows) : file.rows[k][5] # 0
    /\ \A k \in 1..Len(unmapped_csv.rows) : UnmappedAmount(unmapped_csv.rows[k]) # 0

C4_NoZeroOutsideChase == parser # "chase" => C4_NoZeroAmount

\* a Chase file with an amount that is not a number
C4_ChaseUnparsableAmount ==
    /\ parser = "chase"
    /\ Returned
    /\ \E i \in 1..Len(input) : ~IsNumber(input[i].Amount)

(***************************************************************************)
(* C5                                                                      *)
(***************************************************************************)
Description(r) == r.Description

DESCRIPTION(r) == r.DESCRIPTION

\* the original descriptions of the debit-side rows of the run that carry
\* the uncategorized account, in the order of the run's frame
UncategorizedDebits ==
    CASE parser = "capone" ->
            MapSeq(Description,
                   Filter(LAMBDA r : r.Account = UNCATEGORIZED_ACCOUNT /\ r.Debit > r.Credit, df))
      [] parser = "chase" ->
            MapSeq(Description,
                   Filter(LAMBDA r : r.Account = UNCATEGORIZED_ACCOUNT /\ r.Amount < 0, df))
      [] parser = "tcb4" ->
            MapSeq(DESCRIPTION, Filter(LAMBDA r : r.Account = "7800", df_debits))
      [] parser = "tcb3" ->
            MapSeq(DESCRIPTION, Filter(LAMBDA r : r.Account = "7800", df_debits))
      [] OTHER -> <<>>

\* C5: the unmapped report holds exactly the debit-side rows of the run
\* whose account is 7800, each with its original description; the file is
\* written iff there is such a row, otherwise the returned unmapped path is
\* None.
C5_UnmappedReport ==
    Returned =>
        /\ MapSeq(LAMBDA row : row[2], unmapped_csv.rows) = UncategorizedDebits
        /\ unmapped_csv.written <=> UncategorizedDebits # <<>>
        /\ (ret[Len(ret)] = None) <=> ~unmapped_csv.written

C5_ReportOutsideCards == parser \notin {"capone", "chase"} => C5_UnmappedReport

\* a Chase file with an uncategorized payment or refund (a positive amount)
C5_ChaseUncategorizedCredit ==
    /\ parser = "chase"
    /\ Returned
    /\ \E k \in 1..Len(df) : df[k].Account = UNCATEGORIZED_ACCOUNT /\ df[k].Amount > 0

(***************************************************************************)
(* C6                                                                      *)
(***************************************************************************)
\* rows k of file, made from row k of frame: where no key of map occurs in
\* the text matched, fields 4 and 7 are the original description
Preserved(file, frame, map, matched(_), original(_)) ==
    \A k \in 1..Len(file.rows) :
        Occurring(map, Upper(matched(frame[k]))) = {} =>
            /\ file.rows[k][4] = original(frame[k])
            /\ file.rows[k][7] = original(frame[k])

C6_CapOne ==
    parser = "capone" =>
        Preserved(export_csv, df, capone_account_map,
                  LAMBDA r : r.Description_Clean, Description)

C6_Chase ==
    parser = "chase" =>
        Preserved(export_csv, df, chase_account_map,
                  LAMBDA r : r.CleanDescription, Description)

C6_TcbDebit ==
    (parser = "tcb4" /\ Returned) =>
        Preserved(debit_csv, df_debits, debit_account_map, DESCRIPTION, DESCRIPTION)

C6_TcbCredit ==
    (parser = "tcb4" /\ Returned) =>
        Preserved(credit_csv, df_credits, credit_account_map, DESCRIPTION, DESCRIPTION)

\* C6: when no vendor key matches a transaction's description, fields 4 and
\* 7 of its primary export row are the original description, casing and
\* punctuation kept; for TCB debit rows, TCB credit rows, CapOne rows and
\* Chase rows.
C6_NoMatchPreserved == C6_CapOne /\ C6_Chase /\ C6_TcbDebit /\ C6_TcbCredit

\* a TCB debit that no key matches and whose description has a lower-case
\* letter
C6_UnmatchedMixedCaseDebit ==
    /\ parser = "tcb4"
    /\ Returned
    /\ \E k \in 1..Len(df_debits) :
          /\ Occurring(debit_account_map, Upper(df_debits[k].DESCRIPTION)) = {}
          /\ Upper(df_debits[k].DESCRIPTION) # df_debits[k].DESCRIPTION

(***************************************************************************)
(* C7                                                                      *)
(***************************************************************************)
\* the occurring keys of greatest length
LongestOccurring(map, text) ==
    {i \in Occurring(map, text) :
        \A j \in Occurring(map, text) : Len(map[j][1]) <= Len(map[i][1])}

\* a raw description in which a key occurs gets the account of the longest
\* such key, and not the uncategorized one
Classifies(map, raw, account) ==
    Occurring(map, Upper(raw)) # {} =>
        /\ account # UNCATEGORIZED_ACCOUNT
        /\ \E i \in LongestOccurring(map, Upper(raw)) : account = map[i][2]

C7_CapOne ==
    parser = "capone" =>
        \A k \in 1..Len(df) :
            Classifies(capone_account_map, df[k].Description, df[k].Account)

C7_Chase ==
    parser = "chase" =>
        \A k \in 1..Len(df) :
            Classifies(chase_account_map, df[k].Description, df[k].Account)

\* C7: in the card parsers, a row whose raw description contains, after
\* upper-casing, a key of the vendor map gets the account of the longest
\* such key and never 7800; for every declared key, those with punctuation
\* included.
C7_KeyOccurrenceClassifies == C7_CapOne /\ C7_Chase

\* a CapOne row whose description holds a key written with punctuation
C7_PunctuatedKeyInDescription ==
    /\ parser = "capone"
    /\ Returned
    /\ \E k \in 1..Len(df) :
          \E i \in Occurring(capone_account_map, Upper(df[k].Description)) :
              RemoveNonWordNonSpace(capone_account_map[i][1]) # capone_account_map[i][1]

(***************************************************************************)
(* C8                                                                      *)
(***************************************************************************)
\* rows k of file, made from row k of frame: where a key of map occurs in
\* the text matched, field 4 is an occurring key and field 3 is the account
\* of that key
SameKey(file, frame, map, matched(_)) ==
    \A k \in 1..Len(file.rows) :
        LET occ == Occurring(map, Upper(matched(frame[k])))
        IN occ # {} =>
              \E i \in occ : /\ file.rows[k][4] = map[i][1]
                             /\ file.rows[k][3] = map[i][2]

C8_CapOne ==
    parser = "capone" =>
        SameKey(export_csv, df, capone_account_map, LAMBDA r : r.Description_Clean)

C8_Chase ==
    parser = "chase" =>
        SameKey(export_csv, df, chase_account_map, LAMBDA r : r.CleanDescription)

C8_TcbDebit ==
    (parser = "tcb4" /\ Returned) =>
        SameKey(debit_csv, df_debits, debit_account_map, DESCRIPTION)

C8_TcbDraftDebit ==
    (parser = "tcb3" /\ Returned) =>
        SameKey(debit_csv, df_debits, tcb3_debit_account_map, DESCRIPTION)

\* C8: for every parser and every row whose description matches a vendor
\* key, the short description exported is the matched key whose account the
\* row was given; in the three-column TCB parser the short description of a
\* debit row is never the key of another entry than the one that supplied
\* its account.
C8_AccountAndShortFromSameKey == C8_CapOne /\ C8_Chase /\ C8_TcbDebit /\ C8_TcbDraftDebit

\* a three-column debit whose description holds two keys of the debit map,
\* neither inside the other
C8_TwoKeysInDraftDebit ==
    /\ parser = "tcb3"
    /\ Returned
    /\ \E k \in 1..Len(df_debits) :
          \E i, j \in Occurring(tcb3_debit_account_map, Upper(df_debits[k].DESCRIPTION)) :
              /\ i # j
              /\ ~Contains(tcb3_debit_account_map[i][1], tcb3_debit_account_map[j][1])
              /\ ~Contains(tcb3_debit_account_map[j][1], tcb3_debit_account_map[i][1])

(***************************************************************************)
(* C9                                                                      *)
(***************************************************************************)
\* the data rows (by their position in the grid) a batch was made from
BatchRows(batch) == {batch[k].idx : k \in 1..Len(batch)}

HeaderKeywords == <<"DATE", "DESC", "DEBIT", "CREDIT">>

\* how many of the keywords occur among the normalized cells of row
KeywordCount(row) ==
    Cardinality({w \in 1..4 : \E c \in 1..Len(row) :
                    Contains(HeaderKeywords[w], HeaderNorm(row[c]))})

\* C10: the header predicate of the TCB parser is true of the row
\* ["Date","Business Website or Description","Debits","Credits"] and of the
\* near-miss row ["DATE","DESC","DEBIT","CREDIT"], that is of any row with
\* at least 3 of the keywords among its normalized cells.
C10_HeaderPredicate ==
    parser = "tcb4" =>
        \A i \in 1..Len(input) :
            (\/ input[i] = <<"Date", "Business Website or Description", "Debits", "Credits">>
             \/ KeywordCount(input[i]) >= 3)
            => fuzzy_header_match(input[i])

\* the exact header is accepted
C10_ExactHeaderAccepted ==
    parser = "tcb4" =>
        \A i \in 1..Len(input) :
            input[i] = <<"Date", "Business Website or Description", "Debits", "Credits">>
            => fuzzy_header_match(input[i])

\* a grid whose only header row is the near-miss row: no header is found
C10_NearMissHeaderOnly ==
    /\ parser = "tcb4"
    /\ \E i \in 1..Len(input) : input[i] = <<"DATE", "DESC", "DEBIT", "CREDIT">>
    /\ error = "Can't locate table header"

(***************************************************************************)
(* C11                                                                     *)
(***************************************************************************)
\* the files of the output folder this run has written
WrittenFiles ==
    {f \in {export_csv, debit_csv, credit_csv, unmapped_csv} : f.written}

\* the backend found no table, or no row of the grid is a header
ExtractionFailed ==
    \/ parser = "tcb4" /\ \A i \in 1..Len(input) : ~fuzzy_header_match(input[i])
    \/ parser = "tcb3" /\ input = <<>>

\* C11: when the OCR backend returns zero tables, or no extracted row
\* satisfies the header predicate, the TCB parse ends with an exception
\* raised to the caller and returns no file paths.
C11_ExtractionFailureFatal ==
    ~(outcome = "raised" /\ error # "" /\ ret = <<>>) => ~ExtractionFailed

\* a grid with rows, none of which is a header
C11_GridWithoutHeader ==
    /\ parser = "tcb4"
    /\ input # <<>>
    /\ ExtractionFailed
    /\ outcome = "raised"

NothingRetained ==
    /\ parser # "none"
    /\ IF parser = "tcb4" THEN df_debits = <<>> /\ df_credits = <<>> ELSE df = <<>>

\* C13: in every parser, when all input rows are dropped by the date,
\* description and zero-amount filtering, or the input has no data rows, the
\* parse ends with an error raised to the caller: it returns no success
\* value and writes no empty or placeholder export file.
C13_EmptyResultFatal ==
    NothingRetained => (outcome = "raised" /\ ret = <<>> /\ WrittenFiles = {})

C13_EmptyResultFatalInDraft == parser = "tcb3" => C13_EmptyResultFatal

\* a Capital One file whose rows all have amount zero
C13_CapOneAllRowsDropped ==
    /\ parser = "capone"
    /\ input # <<>>
    /\ df = <<>>
    /\ outcome = "returned"

\* a four-column statement with a header and nothing to export
C13_TcbEmptyExportsWritten ==
    /\ parser = "tcb4"
    /\ outcome = "returned"
    /\ NothingRetained
    /\ debit_csv.written
    /\ credit_csv.written

(***************************************************************************)
(* C14                                                                     *)
(***************************************************************************)
\* text that is no number once currency symbols, thousands separators,
\* parentheses, the sign and whitespace are stripped
Unparsable(text) == ~IsNumber(RemoveChars(text, "$,()- "))

\* the four-column parser never raises on an amount cell, and a row is in
\* no batch through a cell that is not a number
C14_Tcb ==
    parser = "tcb4" =>
        /\ error # "could not convert string to float"
        /\ \A i \in 1..Len(df) :
              /\ Unparsable(PadTo(input[df[i].idx], 4)[3])
                    => df[i].idx \notin BatchRows(df_debits)
              /\ Unparsable(PadTo(input[df[i].idx], 4)[4])
                    => df[i].idx \notin BatchRows(df_credits)

\* the three-column draft drops the row whose amount is not a number
C14_TcbDraft ==
    (parser = "tcb3" /\ input # <<>>) =>
        /\ error # "could not convert string to float"
        /\ LET col == resolve_columns(input[1].columns)
           IN col[3] # 0 =>
                 \A i \in 1..Len(input[1].rows) :
                     Unparsable(input[1].rows[i][col[3]]) => i \notin BatchRows(df)

\* Chase: one amount cell per row
C14_Chase ==
    parser = "chase" =>
        /\ error \notin {"could not convert string to float"}
        /\ \A i \in 1..Len(input) :
              Unparsable(input[i].Amount) => i \notin BatchRows(df)

\* CapOne: a row neither of whose amount cells is a number is dropped
C14_CapOne ==
    parser = "capone" =>
        /\ outcome = "returned"
        /\ \A i \in 1..Len(input) :
              (Unparsable(input[i].Debit) /\ Unparsable(input[i].Credit))
                  => i \notin BatchRows(df)

\* C14: for every amount cell text, text that is not a number included,
\* typed conversion yields a number (0 for unparsable text) and never
\* raises; the row with the unparsable amount is then dropped and the other
\* rows are processed normally; for the DEBITS and CREDITS cells of the
\* four-column TCB parser, the three-column parser and the card parsers.
C14_FailOpenAmounts == C14_Tcb /\ C14_TcbDraft /\ C14_Chase /\ C14_CapOne

\* a four-column statement with a header and a DEBITS cell that is no number
C14_TcbUnparsableDebit ==
    /\ parser = "tcb4"
    /\ \E h, i \in 1..Len(input) :
          /\ h < i
          /\ fuzzy_header_match(input[h])
          /\ Len(input[i]) >= 3
          /\ input[i][1] = "01/06/2024"
          /\ RemoveChars(input[i][3], "$,()- ") # ""
          /\ Unparsable(input[i][3])

(***************************************************************************)
(* C15                                                                     *)
(***************************************************************************)
\* a date text that parses to no date, or a missing description
Unusable(date, desc) == to_datetime(date) = NaT \/ isnull(desc)

\* every export row carries a date
C15_ExportsDated ==
    \A file \in PrimaryFiles : \A k \in 1..Len(file.rows) : file.rows[k][1] # ""

C15_Cards ==
    parser \in {"capone", "chase"} =>
        \A i \in 1..Len(input) :
            Unusable(input[i].Date, input[i].Description) => i \notin BatchRows(df)

C15_Tcb ==
    parser = "tcb4" =>
        \A k \in 1..Len(df) :
            Unusable(PadTo(input[df[k].idx], 4)[1], PadTo(input[df[k].idx], 4)[2])
                => df[k].idx \notin (BatchRows(df_debits) \cup BatchRows(df_credits))

C15_TcbDraft ==
    (parser = "tcb3" /\ input # <<>>) =>
        LET col == resolve_columns(input[1].columns)
        IN (col[1] # 0 /\ col[2] # 0) =>
              \A i \in 1..Len(input[1].rows) :
                  Unusable(input[1].rows[i][col[1]], input[1].rows[i][col[2]])
                      => i \notin BatchRows(df)

\* C15: in every parser, a row whose date text cannot be parsed or whose
\* description is missing appears in no output file and consumes no document
\* number; every exported row has a non-empty date field.
C15_UndatedRowsDropped == C15_ExportsDated /\ C15_Cards /\ C15_Tcb /\ C15_TcbDraft

\* a Capital One file with a row whose date is no date and whose amount is
\* not zero
C15_CapOneUndatedRow ==
    /\ parser = "capone"
    /\ Returned
    /\ \E i \in 1..Len(input) :
          /\ to_datetime(input[i].Date) = NaT
          /\ i \in BatchRows(df)

(***************************************************************************)
(* C16                                                                     *)
(***************************************************************************)
\* every row of file carries account in field n
FieldIs(file, n, account) == \A k \in 1..Len(file.rows) : file.rows[k][n] = account

\* all rows of file carry one and the same value in field n
FieldFixed(file, n) ==
    \A j, k \in 1..Len(file.rows) : file.rows[j][n] = file.rows[k][n]

\* field 3 of batch row k is the account the classifier gave the row
ClassifiedInField3(file, batch) ==
    \A k \in 1..Len(file.rows) : file.rows[k][3] = batch[k].Account

C16_Tcb ==
    parser = "tcb4" =>
        /\ FieldIs(debit_csv, 6, "1100")
        /\ ClassifiedInField3(debit_csv, df_debits)
        /\ FieldIs(credit_csv, 3, "1100")
        /\ FieldIs(credit_csv, 6, "4000")

C16_CapOne ==
    parser = "capone" =>
        /\ FieldIs(export_csv, 6, 2130)
        /\ ClassifiedInField3(export_csv, df)

C16_Chase ==
    parser = "chase" =>
        /\ FieldFixed(export_csv, 6)
        /\ ClassifiedInField3(export_csv, df)

\* C16: every row of a debit batch has the classified expense account in
\* field 3 and one fixed bank/liability account in field 6, the same for
\* all rows of the batch (1100 for TCB, 2130 for CapOne, a single fixed
\* account for Chase 7772 whatever the sign of the amount); every row of the
\* TCB credit batch has 1100 in field 3 and 4000 in field 6.
C16_FixedAccountOrientation == C16_Tcb /\ C16_CapOne /\ C16_Chase

\* a Chase import holding a charge and a payment
C16_ChaseBothSigns ==
    /\ parser = "chase"
    /\ Returned
    /\ \E j, k \in 1..Len(export_csv.rows) :
          export_csv.rows[j][5] < 0 /\ export_csv.rows[k][5] > 0

(***************************************************************************)
(* C17                                                                     *)
(***************************************************************************)
\* the entry declared first among the entries tied
FirstDeclared(tied) == CHOOSE i \in tied : \A j \in tied : i <= j

\* the occurring keys of greatest length among the occurring keys occ
LongestOf(map, occ) ==
    {i \in occ : \A j \in occ : Len(map[j][1]) <= Len(map[i][1])}

\* a row in whose description several keys of the greatest occurring length
\* occur gets the account and the key of the entry declared first
TieToFirstDeclared(map, text, account, short) ==
    \A occ \in {Occurring(map, text)} :
    \A tied \in {LongestOf(map, occ)} :
        Cardinality(tied) >= 2 =>
            /\ account = map[FirstDeclared(tied)][2]
            /\ short = map[FirstDeclared(tied)][1]

C17_CapOne ==
    parser = "capone" =>
        \A k \in 1..Len(df) :
        \A text \in {Upper(df[k].Description_Clean)} :
            TieToFirstDeclared(capone_account_map, text,
                               df[k].Account, df[k].ShortDescription)

C17_Chase ==
    parser = "chase" =>
        \A k \in 1..Len(df) :
        \A text \in {Upper(df[k].CleanDescription)} :
            TieToFirstDeclared(chase_account_map, text,
                               df[k].Account, df[k].ShortDescription)

\* C17: when two or more keys of equal length both occur in the upper-cased
\* description and no longer key matches, the classifier (CapOne and Chase
\* map_account / map_short_desc) returns the account and the key of the one
\* declared first in the vendor map.
C17_DeclarationOrderTieBreak == C17_CapOne /\ C17_Chase

\* a card run with a row in which two keys of equal length and different
\* accounts tie, the one declared later standing first in the text
C17_TiedKeysInRow ==
    /\ parser \in {"capone", "chase"}
    /\ Returned
    /\ \E k \in 1..Len(df) :
          LET map == IF parser = "capone" THEN capone_account_map ELSE chase_account_map
              text == Upper(IF parser = "capone" THEN df[k].Description_Clean
                            ELSE df[k].CleanDescription)
          IN \E i, j \in LongestOccurring(map, text) :
                i < j /\ map[i][2] # map[j][2] /\ df[k].Account = map[i][2]

(***************************************************************************)
(* C18                                                                     *)
(***************************************************************************)
\* the batches of the run, in the order in which they are numbered
Batches == IF parser = "tcb4" THEN {df_debits, df_credits} ELSE {df}

\* rows of one date keep the relative order they have in the source
KeepsSourceOrder(batch) ==
    \A j, k \in 1..Len(batch) :
        (j < k /\ batch[j].Date = batch[k].Date) => batch[j].idx < batch[k].idx

\* C18: in every batch, two transactions with the same date are emitted and
\* numbered in the relative order in which they appeared in the source, for
\* every input length; the sort used before numbering never reorders rows
\* of equal date.
C18_StableDateSort == Returned => \A batch \in Batches : KeepsSourceOrder(batch)

\* a batch holding two transactions of one date
C18_EqualDatesInBatch ==
    /\ Returned
    /\ \E batch \in Batches : \E j, k \in 1..Len(batch) :
          j < k /\ batch[j].Date = batch[k].Date /\ batch[j].Date # NaT

(***************************************************************************)
(* C19                                                                     *)
(***************************************************************************)
\* the first of the rows flagged as matching the header predicate
FirstHeader(flags) ==
    CHOOSE h \in 1..Len(flags) : flags[h] /\ \A i \in 1..(h - 1) : ~flags[i]

\* the first cell is empty after trimming or contains TOTAL in any casing
BlankOrTotalFirstCell(row) ==
    \/ row = <<>>
    \/ Strip(row[1]) = ""
    \/ Contains("TOTAL", Upper(row[1]))

\* the rows below the first header that are neither headers nor summary or
\* blank rows
RowsBelowHeader(flags) ==
    {i \in (FirstHeader(flags) + 1)..Len(input) :
        ~flags[i] /\ ~BlankOrTotalFirstCell(input[i])}

Parenthesized(text) ==
    /\ text # ""
    /\ Char(text, 1) = "("
    /\ Char(text, Len(text)) = ")"
    /\ IsNumber(RemoveChars(text, "()$, "))
    /\ NumberValue(RemoveChars(text, "()$, ")) # 0

\* field 5 of export row k is the absolute value of the batch row's amount
AbsoluteInField5(file, batch) ==
    /\ Len(file.rows) = Len(batch)
    /\ \A k \in 1..Len(batch) : file.rows[k][5] = Abs(batch[k].Amount)

\* C20: in the three-column TCB parser, after cleaning (a parenthesized
\* amount becomes a negative number), every retained row goes to exactly one
\* batch: the credit batch if and only if its amount is > 0 and the debit
\* batch if and only if its amount is < 0; each batch row is exported with
\* the absolute value of its amount in field 5, and the total number of
\* exported rows equals the number of retained rows.
C20_SignSplit ==
    (parser = "tcb3" /\ Returned) =>
        /\ \A k \in 1..Len(df) :
              /\ (df[k].idx \in BatchRows(df_credits)) <=> (df[k].Amount > 0)
              /\ (df[k].idx \in BatchRows(df_debits)) <=> (df[k].Amount < 0)
              /\ (df[k].idx \in BatchRows(df_credits))
                    # (df[k].idx \in BatchRows(df_debits))
        /\ AbsoluteInField5(credit_csv, df_credits)
        /\ AbsoluteInField5(debit_csv, df_debits)
        /\ Len(credit_csv.rows) + Len(debit_csv.rows) = Len(df)
        /\ \A col \in {resolve_columns(input[1].columns)} :
           \A i \in 1..Len(input[1].rows) :
               (/\ to_datetime(input[1].rows[i][col[1]]) # NaT
                /\ Parenthesized(input[1].rows[i][col[3]]))
                   => \E k \in 1..Len(df) : df[k].idx = i /\ df[k].Amount < 0

\* a statement with a deposit and a withdrawal written in parentheses
C20_DepositAndParenthesizedWithdrawal ==
    /\ parser = "tcb3"
    /\ Returned
    /\ df_credits # <<>>
    /\ \E k \in 1..Len(df_debits) :
          Parenthesized(input[1].rows[df_debits[k].idx][resolve_columns(input[1].columns)[3]])

(***************************************************************************)
(* C21                                                                     *)
(***************************************************************************)
\* the canonical fields
Fields == 1..Len(FUZZY_COLUMN_TOKENS)

\* no column is given to two canonical fields
OneToOne(col) ==
    \A f, g \in Fields : (f # g /\ col[f] # 0) => col[f] # col[g]

\* the names of the canonical fields that received no column
Unassigned(col) ==
    LET fs == SelectSeq(<<1, 2, 3>>, LAMBDA f : col[f] = 0)
    IN [k \in 1..Len(fs) |-> FUZZY_COLUMN_TOKENS[fs[k]][1]]

\* the error that names the fields in missing
MissingColumnsError(missing) ==
    "Can't locate table header. Missing required columns: " \o join_comma(missing)

\* the cleaned name of column c contains a token of field f
TokenIn(columns, c, f) ==
    \E t \in 1..Len(FUZZY_COLUMN_TOKENS[f][2]) :
        Contains(clean_string(FUZZY_COLUMN_TOKENS[f][2][t]), clean_string(columns[c]))

\* C21: after column resolution in the three-column TCB parser, no observed
\* column is assigned to more than one canonical field (DATE, DESCRIPTION,
\* AMOUNT_COMBINED) and no canonical field is assigned more than one column;
\* when resolution fails, the error lists exactly the canonical fields that
\* received no column.
C21_ResolutionOneToOne ==
    (parser = "tcb3" /\ input # <<>>) =>
        \A col \in {resolve_columns(input[1].columns)} :
            /\ Len(col) = Len(FUZZY_COLUMN_TOKENS)
            /\ \A f \in Fields : col[f] \in 0..Len(input[1].columns)
            /\ OneToOne(col)
            /\ (Unassigned(col) # <<>>) =>
                  (outcome = "raised" /\ error = MissingColumnsError(Unassigned(col)))
            /\ (Unassigned(col) = <<>>) =>
                  error \in {"", "No valid transactions found"}

\* a statement with a column that carries tokens of two canonical fields,
\* for which resolution fails
C21_SharedColumnAndMissingField ==
    /\ parser = "tcb3"
    /\ input # <<>>
    /\ outcome = "raised"
    /\ error # "No valid transactions found"
    /\ \E c \in 1..Len(input[1].columns) : \E f, g \in Fields :
          f # g /\ TokenIn(input[1].columns, c, f) /\ TokenIn(input[1].columns, c, g)

(***************************************************************************)
(* C22                                                                     *)
(***************************************************************************)
\* the observed headers admit an assignment of three distinct columns to
\* the canonical fields, each column carrying a token of its field
Resolvable(columns) ==
    \E a, b, c \in 1..Len(columns) :
        /\ a # b /\ a # c /\ b # c
        /\ TokenIn(columns, a, 1)
        /\ TokenIn(columns, b, 2)
        /\ TokenIn(columns, c, 3)

\* some canonical field has no matching column at all
FieldWithoutColumn(columns) ==
    \E f \in Fields : \A c \in 1..Len(columns) : ~TokenIn(columns, c, f)

\* the run failed with the missing-column error
MissingColumnsRaised ==
    /\ outcome = "raised"
    /\ error \notin {"Document AI did not return any structured tables",
                     "No valid transactions found"}

\* C22: in the three-column TCB parser, whenever the observed headers admit
\* an assignment of three distinct columns to DATE, DESCRIPTION and
\* AMOUNT_COMBINED such that each column's cleaned name contains one of
\* that field's tokens, column resolution succeeds; the missing-column
\* error is raised only when some required field has no matching column at
\* all.
C22_ResolutionComplete ==
    (parser = "tcb3" /\ input # <<>>) =>
        /\ Resolvable(input[1].columns) => ~MissingColumnsRaised
        /\ MissingColumnsRaised => FieldWithoutColumn(input[1].columns)

\* a statement whose headers admit an assignment although the column found
\* first for DATE is the only one that can serve DESCRIPTION
C22_GreedyChoiceBlocksField ==
    /\ parser = "tcb3"
    /\ input # <<>>
    /\ Resolvable(input[1].columns)
    /\ \E c \in 1..Len(input[1].columns) :
          /\ TokenIn(input[1].columns, c, 1)
          /\ TokenIn(input[1].columns, c, 2)
          /\ \A d \in 1..Len(input[1].columns) : d # c => ~TokenIn(input[1].columns, d, 2)

(***************************************************************************)
(* C23  the summary cross-check is soft                                    *)
(***************************************************************************)
\* the grid with every row whose first cell contains "TOTAL" taken out
WithoutSummaryRows(all_rows) ==
    Filter(LAMBDA row : ~Contains("TOTAL", Upper(row[1])), all_rows)

\* the run left the files and returned the paths that the run r does (the
\* frames' index labels, which no file carries, are not compared)
SameAsRun(r) ==
    /\ outcome = r.outcome
    /\ error = r.error
    /\ ret = r.ret
    /\ debit_csv = r.debit_csv
    /\ credit_csv = r.credit_csv
    /\ unmapped_csv = r.unmapped_csv

\* C23: in the four-column TCB parser, whatever the summary row holds and
\* whether the validation printed OK or WARNING, the run returns and its
\* batches, document numbers, export files and returned paths are those of
\* a run on the same grid without its summary rows.
C23_SummaryCheckIsSoft ==
    (parser = "tcb4" /\ summary \in {"OK", "WARNING"}) =>
        /\ outcome = "returned"
        /\ \A rows \in {WithoutSummaryRows(input)} :
           \A p \in {tcb4_parse(rows)} :
           \A deb \in {tcb4_debits(p.df)}, cre \in {tcb4_credits(p.df)} :
           \E od \in SortedOrders(Dates(deb)), oc \in SortedOrders(Dates(cre)) :
           \E r \in {tcb4_run(p.error, Take(deb, od), Take(cre, oc),
                               debit_account_map, credit_account_map,
                               gj_startnum, dp_startnum)} :
               SameAsRun(r)

\* a returned run whose summary row disagrees with a non-empty batch
C23_MismatchingSummaryRow ==
    /\ parser = "tcb4"
    /\ outcome = "returned"
    /\ summary = "WARNING"
    /\ Len(input) # Len(WithoutSummaryRows(input))
    /\ debit_csv.rows # <<>>

\* a returned run whose summary row agrees with both batch totals
C23_MatchingSummaryRow ==
    /\ parser = "tcb4"
    /\ outcome = "returned"
    /\ summary = "OK"
    /\ debit_csv.rows # <<>>
    /\ credit_csv.rows # <<>>

(***************************************************************************)
(* C24  dense grid reconstruction                                          *)
(***************************************************************************)
\* the backend cells of the table at the grid position (r, c)
CellsAt(cells, r, c) ==
    {i \in 1..Len(cells) : cells[i].row_index = r - 1 /\ cells[i].column_index = c - 1}

\* the grid is rectangular: max_row_index + 1 rows of max_col_index + 1 cells
DenseShape(cells) ==
    /\ Len(extracted) = max_row(cells) + 1
    /\ \A r \in 1..Len(extracted) : Len(extracted[r]) = max_col(cells) + 1

\* a position without a backend cell, or whose cells have no text segment,
\* holds the empty string
GapsEmpty(cells) ==
    \A r \in 1..Len(extracted) : \A c \in 1..Len(extracted[r]) :
        (\A i \in CellsAt(cells, r, c) : cells[i].text_segments = <<>>)
            => extracted[r][c] = ""

\* a position with one backend cell holds the trimmed text of that cell
CellTextKept(cells) ==
    \A r \in 1..Len(extracted) : \A c \in 1..Len(extracted[r]) :
        \A i \in CellsAt(cells, r, c) :
            Cardinality(CellsAt(cells, r, c)) = 1
                => extracted[r][c] = get_text_from_dimensions(DocumentText, cells[i])

\* C24: for every table the backend returns as a sparse list of cells, the
\* extraction returns a grid of exactly max_row_index + 1 rows of exactly
\* max_col_index + 1 cells, in which the cell at (r, c) holds the trimmed
\* text of the backend cell with those indices and every position with no
\* backend cell, or with a cell that has no text segment, holds "".
C24_DenseGrid ==
    (parser = "doc_ai" /\ cells_of(input[1]) # <<>>) =>
        /\ outcome = "returned"
        /\ \A cells \in {cells_of(input[1])} :
              /\ DenseShape(cells)
              /\ GapsEmpty(cells)
              /\ CellTextKept(cells)

\* a sparse table one of whose cells has its text in two segments
C24_CellInTwoSegments ==
    /\ parser = "doc_ai"
    /\ outcome = "returned"
    /\ \E i \in 1..Len(cells_of(input[1])) :
          /\ Len(cells_of(input[1])[i].text_segments) = 2
          /\ Cardinality(CellsAt(cells_of(input[1]),
                                 cells_of(input[1])[i].row_index + 1,
                                 cells_of(input[1])[i].column_index + 1)) = 1
    /\ Len(extracted) * Len(extracted[1]) > Len(cells_of(input[1]))

\* what the extraction does keep of a cell: its first segment, trimmed
FirstSegmentKept(cells) ==
    \A r \in 1..Len(extracted) : \A c \in 1..Len(extracted[r]) :
        \A i \in CellsAt(cells, r, c) :
            (Cardinality(CellsAt(cells, r, c)) = 1 /\ cells[i].text_segments # <<>>)
                => extracted[r][c] = content(DocumentText, cells[i])

\* the grid is dense and rectangular, its gaps are empty, and each cell
\* holds the first text segment of its backend cell
C24_DenseGridOfFirstSegments ==
    (parser = "doc_ai" /\ cells_of(input[1]) # <<>>) =>
        /\ outcome = "returned"
        /\ \A cells \in {cells_of(input[1])} :
              /\ DenseShape(cells)
              /\ GapsEmpty(cells)
              /\ FirstSegmentKept(cells)

(***************************************************************************)
(* C25  one transaction, one export row                                    *)
(***************************************************************************)
\* C25: in the four-column TCB parser no data row of the statement is in
\* both the debit batch and the credit batch, also when both its DEBITS and
\* its CREDITS cells are positive, so the debit file and the credit file
\* together never hold more rows than the statement has data rows.
C25_OneTransactionOneRow ==
    (parser = "tcb4" /\ outcome = "returned") =>
        /\ BatchRows(df_debits) \cap BatchRows(df_credits) = {}
        /\ Len(debit_csv.rows) + Len(credit_csv.rows) <= Len(df)

\* a statement with a data row whose DEBITS and CREDITS are both positive
C25_RowWithBothAmounts ==
    /\ parser = "tcb4"
    /\ outcome = "returned"
    /\ \E i \in 1..Len(df) : df[i].DEBITS > 0 /\ df[i].CREDITS > 0

(***************************************************************************)
(* C26  returned paths name written files                                  *)
(***************************************************************************)
\* the file of this run that a returned path names; a path under which the
\* run wrote nothing names no file
FileNamed(path) ==
    IF path \in {"CapOne_import.csv", "Chase7772_import.csv"} THEN export_csv
    ELSE IF path \in {"TCB_credits.csv", "TCB_deposits.csv"} THEN credit_csv
    ELSE IF path \in {"TCB_debits.csv", "TCB_withdrawals.csv"} THEN debit_csv
    ELSE IF path \in {"CapOne_unmapped.csv", "Chase7772_unmapped.csv", "TCB_unmapped.csv"}
         THEN unmapped_csv
    ELSE NoFile

\* the path the upload handler links as the import file: the first element
\* of the returned tuple
import_file == ret[1]

\* C26: whenever a processor returns without error, the import path it
\* returns is not None and every path it returns that is not None names a
\* file this run wrote, also when a batch is empty or every row was
\* filtered out.
C26_ReturnedPathsWritten ==
    (parser \in {"capone", "chase", "tcb4", "tcb3"} /\ outcome = "returned") =>
        /\ import_file # None
        /\ \A k \in 1..Len(ret) : ret[k] # None => FileNamed(ret[k]).written

\* a run that returns although every row was filtered out or the batch of
\* the import file is empty
C26_ReturnedWithNothingToImport ==
    /\ outcome = "returned"
    /\ \/ parser = "capone" /\ df = <<>> /\ input # <<>>
       \/ parser = "tcb3" /\ df_credits = <<>> /\ df_debits # <<>>

====
